---- MODULE Spec2Model ----
(***************************************************************************)
(* FleetNav location ingestion and fan-out pipeline.                       *)
(*                                                                         *)
(* Sources modelled:                                                       *)
(*   services/redis.js            hot cache, throttle, dead-zone check     *)
(*   services/kafka.js            producer, db-writer and fan-out groups   *)
(*   controllers/location...js    pushLocation, getLocation                *)
(*   websockets/socketHandler.js  sessions, rooms, subscribe, push         *)
(*   config/redis.js              the client the socket handler asks for   *)
(*   server.js / cluster entry    boot order, worker processes             *)
(*                                                                         *)
(* Every handler is an async function: it is modelled as one step per      *)
(* await, so handlers of concurrent requests interleave at the awaits.     *)
(*                                                                         *)
(* Time is a discrete clock of TicksPerSec ticks per second.  Positions    *)
(* are integer multiples of UnitMetres metres along the equator (lat = 0,  *)
(* where cos(lat) = 1 exactly), so the dead-zone distance is exact.        *)
(* Timestamps are tick counts; a Date survives JSON.stringify / new Date   *)
(* unchanged (ISO-8601 keeps the millisecond), so they are kept as is.     *)
(***************************************************************************)
EXTENDS Integers, Sequences, FiniteSets, TLC

\* ------------------------------------------------------------- bounds
TicksPerSec == 2
UnitMetres == 5
MaxTicks == 3
MaxSecs == 1
MaxJumps == 1
MaxReq == 2
MaxPings == 2
MaxThrottleReq == 6
MaxWindowReq == 8
MaxReadReq == 3
\* elements in one batch push
MaxBatch == 2
\* batch pushes issued
MaxBatchReq == 2
\* push:location events one connection sends
MaxSockPush == 2
\* HTTP pushes next to the socket traffic
MaxSockReq == 1
\* runs of the room sweeper on one worker
MaxSweeps == 1
\* 'error' events of one connection
MaxSockErrors == 1
\* requests in SpecNearby
MaxNearbyReq == 4
\* requests in SpecCoalesce
MaxCoalesceReq == 3
\* records on the topic that are not JSON
MaxForeign == 1
\* requests in SpecWriter
MaxWriterReq == 2
\* history rows beyond the log's records in SpecRedeliver
MaxRedeliver == 1
\* refresh requests in SpecRefresh
MaxRefreshReq == 3
\* single pushes published while the consumer groups run
MaxConsumeReq == 2
\* single and batch pushes published to the keyed topic
MaxKeyedReq == 2
\* SOS triggers issued
MaxSosReq == 3

\* -------------------------------------------------- program constants
BatchMax == 1000
SosPerDay == 1
RejectedShown == 10
CacheTtlSec == 300
ThrottleWindowSec == 1
MaxPerSec == 5
MinMeters == 10
\* getNearby: the window of active vehicles in seconds, the cap on the radius
\* in km, and the $limit of the pipeline
NearbyWindowSec == 60
NearbyCapKm == 5
NearbyLimit == 100
\* refreshToken: the lifetime of a refresh token in seconds (30 days)
RefreshTtlSec == 2592000
RetryAfterMs == 1000
NextPingMs == 5000

CacheTtl == CacheTtlSec * TicksPerSec
ThrottleWindow == ThrottleWindowSec * TicksPerSec
RefreshTtl == RefreshTtlSec * TicksPerSec

Workers == {1, 2}
Vehicles == {"a", "b"}
Sessions == {"s1", "s2"}
Partitions == {1, 2}
Users == {"u1"}
Ips == {"ip1", "ip2"}
Slots == {1, 2}

\* The worker process each session's connection landed on.
SessWorker == [s \in Sessions |-> IF s = "s1" THEN 1 ELSE 2]

NearbyAll == [kind |-> "nearby-all", id |-> ""]
VehicleRoom(v) == [kind |-> "vehicle", id |-> v]

VARIABLES
  env,              \* process.env: KAFKA_BROKERS, REDIS_URL set or not; NODE_ENV
  alive,            \* the worker processes that run
  producer,         \* per worker: "noop" or "kafka"
  isProducerReady,  \* per worker
  isReady,          \* per worker: services/redis isReady
  cfgRedis,         \* per worker: config/redis `redis`
  now,              \* the clock, in ticks
  cache,            \* loc:{vehicleId} entries, per store
  throttle,         \* throttle:{vehicleId} counters, per store
  log,              \* topic vehicle-locations (one partition)
  dbOffset,         \* committed offset of group location-db-writer
  fanOffset,        \* committed offset of group websocket-fanout
  fanOwner,         \* the member of websocket-fanout that holds the partition
  observed,         \* per worker: offsets its fan-out consumer has processed
  history,          \* LocationLog collection, in insertion order
  desc,             \* Vehicle documents: status, lastSeen
  pending,          \* store writes issued and not yet settled
  conn,             \* per session: connected, userId set
  rooms,            \* per session: the rooms it is in
  inbox,            \* per session: the messages delivered to it
  joinAt,           \* per session: Len(inbox) when it last joined a vehicle room
  joinMark,         \* per session: newest of cache and history at that moment
  slot,             \* the request handlers in flight, and their last response;
                    \* failed: the cache operations that were skipped or threw
  nreq,             \* requests issued so far
  passTimes,        \* per vehicle: ticks at which a push passed the throttle
  winPassed,        \* per store and vehicle: passes counted by the live counter
  firstPos,         \* per vehicle: position of its first ping
  stationary,       \* per vehicle: every ping so far within MinMeters of the first
  fwd,              \* per vehicle: single pushes that passed the dead-zone filter
  lapsed,           \* per vehicle: a cache entry of it has expired
  lost,             \* the documents whose direct create was rejected
  acked,            \* per vehicle: newest timestamp a forwarded push was answered for
  swept,            \* per worker: runs of the room sweeper so far
  dbPart,           \* per partition: committed offset of location-db-writer
  fanPart,          \* per partition: committed offset of websocket-fanout
  lastSet,          \* per store and vehicle: time of the last setEx of loc:{id}
  sosCredit,        \* User documents: sosCredit
  sosEvents,        \* SOS collection, in insertion order
  sosHits,          \* per worker and IP: hits counted by rateLimiters.sos
  refreshTokens     \* RefreshToken collection, in insertion order

cfgVars == <<env, alive, cfgRedis>>
connVars == <<producer, isProducerReady, isReady>>
storeVars == <<cache, throttle>>
logVars == <<log, dbOffset, fanOffset, fanOwner, observed>>
dbVars == <<history, desc, pending>>
sockVars == <<conn, rooms, inbox, joinAt, joinMark>>
ghostVars == <<passTimes, winPassed, firstPos, stationary, fwd, lapsed, lost,
               acked>>
partVars == <<dbPart, fanPart>>
sosVars == <<sosCredit, sosEvents, sosHits>>
extVars == <<swept, partVars, lastSet, sosVars, refreshTokens>>
vars == <<cfgVars, connVars, now, storeVars, logVars, dbVars, sockVars,
          slot, nreq, ghostVars, extVars>>

\* ------------------------------------------------------------ values
NoLoc == [present |-> FALSE, lat |-> 0, lng |-> 0, ts |-> 0, exp |-> 0]
NoCounter == [n |-> 0, hasExp |-> FALSE, exp |-> 0]
Loc(lat, lng, ts, exp) ==
  [present |-> TRUE, lat |-> lat, lng |-> lng, ts |-> ts, exp |-> exp]
Doc(v, lat, lng, ts) == [vehicleId |-> v, lat |-> lat, lng |-> lng, ts |-> ts]
Msg(event, v, ts) == [event |-> event, vehicleId |-> v, ts |-> ts]

Idle ==
  [kind |-> "idle", pc |-> "idle", w |-> 1, v |-> "a", lat |-> 0, lng |-> 0,
   ts |-> 0, count |-> 0, moved |-> FALSE, filtered |-> FALSE,
   kafkaOk |-> FALSE, logDown |-> FALSE, cached |-> FALSE,
   status |-> 0, reason |-> "", retryAfterMs |-> 0, nextPingMs |-> 0,
   source |-> "", effects |-> {}, failed |-> {}, floor |-> -1,
   updates |-> <<>>, valid |-> <<>>, invalid |-> <<>>, error |-> "",
   counted |-> FALSE, processed |-> 0, rejected |-> 0, rejectedIds |-> <<>>,
   user |-> "u1", ip |-> "ip1", credit |-> 0, code |-> "", details |-> {},
   data |-> <<>>, radius |-> 0, radiusKm |-> 0,
   refreshToken |-> 0, stored |-> 0, newRefreshToken |-> 0]

Max(a, b) == IF a >= b THEN a ELSE b

\* A worker's store: the external Redis is shared by all workers, the
\* in-memory fallback is one Map per process.
StoreOf(w) == IF env.REDIS_URL THEN 1 ELSE w


\* --------------------------------------------------- services/redis.js
\* A key set with a TTL is gone once the TTL has passed.  Redis drops the key
\* at its expiry time; the in-memory fallback drops it on the first get with
\* Date.now() > expiresAt, and its counters by a timer of ttl seconds.
Expired(e, t) == IF env.REDIS_URL THEN t >= e.exp ELSE t > e.exp
CounterKept(c, t) == FALSE
CounterExpired(c, t) == c.hasExp /\ t >= c.exp

\* Variant of the write: an entry that is there keeps its expiry time.
SetKeepTtl(c, st, v, lat, lng, ts) ==
  [c EXCEPT ![st][v] =
     Loc(lat, lng, ts, IF c[st][v].present THEN c[st][v].exp ELSE now + CacheTtl)]

\* client.setEx(`loc:${vehicleId}`, 300, JSON.stringify(payload))
SetEx(c, st, v, lat, lng, ts) ==
  [c EXCEPT ![st][v] = Loc(lat, lng, ts, now + CacheTtl)]

\* client.incr(key): the new value of the counter
Incr(st, v) == throttle[st][v].n + 1

\* Variants of the limit test: the limit itself is refused; one more than
\* the limit is let through.
OverLimitAtLimit(count) == count >= MaxPerSec
OverLimitLate(count) == count > MaxPerSec + 1

\* isVehicleThrottled: return count > maxPerSec
OverLimit(count) == count > MaxPerSec

\* Variant of the read: the entry is returned whether or not the client is
\* ready and the get succeeded.
GetCachedAnyway(w, v, fail) == cache[StoreOf(w)][v]

\* getCachedLocation: null when not ready, when get throws, when no key
GetCachedLocation(w, v, fail) ==
  IF ~isReady[w] \/ fail THEN NoLoc ELSE cache[StoreOf(w)][v]

\* Variant of the dead-zone test: the distance in metres is compared with
\* the threshold in kilometres.
HasMovedKm(prev, newLat, newLng) ==
  IF ~prev.present THEN TRUE
  ELSE LET dLat == (newLat - prev.lat) * UnitMetres
           dLng == (newLng - prev.lng) * UnitMetres
       IN  (dLat * dLat + dLng * dLng) * 1000 * 1000 >= MinMeters * MinMeters

\* hasMovedEnough: dist >= minMeters, on squares (both sides are >= 0)
HasMovedEnough(prev, newLat, newLng) ==
  IF ~prev.present THEN TRUE
  ELSE LET dLat == (newLat - prev.lat) * UnitMetres
           dLng == (newLng - prev.lng) * UnitMetres
       IN  dLat * dLat + dLng * dLng >= MinMeters * MinMeters

\* --------------------------------------------------- services/kafka.js
\* connectProducer: without KAFKA_BROKERS, or when connect throws, the
\* producer is the no-op producer and isProducerReady is set to true.
ConnectProducer(brokers, connectOk) ==
  IF brokers /\ connectOk
  THEN [producer |-> "kafka", isProducerReady |-> TRUE]
  ELSE [producer |-> "noop", isProducerReady |-> TRUE]

\* publishLocation: false when not ready or when send throws, else true.
\* The no-op producer's send resolves without doing anything.
PublishLocation(w, sendOk) ==
  IF ~isProducerReady[w] THEN FALSE
  ELSE IF producer[w] = "noop" THEN TRUE
  ELSE sendOk

\* The record reaches the topic only through a real producer's send.
Appended(w, sendOk) ==
  isProducerReady[w] /\ producer[w] = "kafka" /\ sendOk

\* The event log is unavailable to a publish: no broker configured, producer
\* not connected at boot (no-op), producer disconnected, or the send fails.
LogUnavailable(w, sendOk) ==
  \/ ~env.KAFKA_BROKERS
  \/ producer[w] = "noop"
  \/ ~isProducerReady[w]
  \/ ~sendOk

\* ------------------------------------------------------------- rooms
\* io.to(room).emit(...) on worker w reaches the sessions of that worker's
\* socket.io server that are in the room.
Members(w, room) ==
  {s \in Sessions : conn[s].connected /\ SessWorker[s] = w /\ room \in rooms[s]}
Emit(inb, w, room, m) ==
  [s \in Sessions |-> IF s \in Members(w, room) THEN Append(inb[s], m) ELSE inb[s]]

\* --------------------------------------------------------- the store
\* LocationLog.findOne({ vehicleId }).sort({ timestamp: -1 })
RowsOf(v) == {i \in 1..Len(history) : history[i].vehicleId = v}
NewestTs(v) ==
  IF RowsOf(v) = {} THEN -1
  ELSE CHOOSE t \in {history[i].ts : i \in RowsOf(v)} :
         \A i \in RowsOf(v) : history[i].ts <= t
\* Variant of the lookup: the sort is ascending, the oldest row is found.
FindOldest(v) ==
  IF RowsOf(v) = {} THEN NoLoc
  ELSE LET i == CHOOSE j \in RowsOf(v) :
                  \A k \in RowsOf(v) : history[j].ts <= history[k].ts
       IN  Loc(history[i].lat, history[i].lng, history[i].ts, 0)

FindNewest(v) ==
  IF RowsOf(v) = {} THEN NoLoc
  ELSE LET i == CHOOSE j \in RowsOf(v) : history[j].ts = NewestTs(v)
       IN  Loc(history[i].lat, history[i].lng, history[i].ts, 0)

\* -------------------------------------------------------------- Init
\* The state when boot() has run and the listener accepts requests:
\* connectDB, redis.connect, kafka.connectProducer, the consumers.  The
\* sessions in `subscribed` have connected with a valid token and subscribed
\* to vehicle "a" before any ping arrived.
InitWith(production, subscribed) ==
  /\ env \in {[KAFKA_BROKERS |-> k, REDIS_URL |-> r, production |-> production] :
                k \in BOOLEAN, r \in BOOLEAN}
  /\ alive = IF production THEN Workers ELSE {1}
  /\ \E connectOk \in BOOLEAN :
       /\ (env.KAFKA_BROKERS \/ connectOk)
       /\ producer = [w \in Workers |->
                        ConnectProducer(env.KAFKA_BROKERS, connectOk).producer]
       /\ isProducerReady = [w \in Workers |->
                        ConnectProducer(env.KAFKA_BROKERS, connectOk).isProducerReady]
  /\ isReady = [w \in Workers |-> TRUE]
  /\ cfgRedis = [w \in Workers |-> "null"]
  /\ now = 0
  /\ cache = [st \in Workers |-> [v \in Vehicles |-> NoLoc]]
  /\ throttle = [st \in Workers |-> [v \in Vehicles |-> NoCounter]]
  /\ log = <<>>
  /\ dbOffset = 0
  /\ fanOffset = 0
  /\ fanOwner = 1
  /\ observed = [w \in Workers |-> {}]
  /\ history = <<>>
  /\ desc = [v \in Vehicles |-> [status |-> "inactive", lastSeen |-> -1]]
  /\ pending = <<>>
  /\ conn = [s \in Sessions |->
               [connected |-> s \in subscribed, userId |-> s \in subscribed,
                token |-> IF s \in subscribed THEN "valid" ELSE "none",
                pushes |-> 0,
                errors |-> 0]]
  /\ rooms = [s \in Sessions |->
               IF s \in subscribed THEN {NearbyAll, VehicleRoom("a")} ELSE {}]
  /\ inbox = [s \in Sessions |-> <<>>]
  /\ joinAt = [s \in Sessions |-> IF s \in subscribed THEN 0 ELSE -1]
  /\ joinMark = [s \in Sessions |-> -1]
  /\ slot = [r \in Slots |-> Idle]
  /\ nreq = 0
  /\ passTimes = [v \in Vehicles |-> <<>>]
  /\ winPassed = [st \in Workers |-> [v \in Vehicles |-> 0]]
  /\ firstPos = [v \in Vehicles |-> [set |-> FALSE, lat |-> 0, lng |-> 0]]
  /\ stationary = [v \in Vehicles |-> TRUE]
  /\ fwd = [v \in Vehicles |-> 0]
  /\ lapsed = [v \in Vehicles |-> FALSE]
  /\ lost = {}
  /\ acked = [v \in Vehicles |-> -1]
  /\ swept = [w \in Workers |-> 0]
  /\ dbPart = [p \in Partitions |-> 0]
  /\ fanPart = [p \in Partitions |-> 0]
  /\ lastSet = [st \in Workers |-> [v \in Vehicles |-> -1]]
  /\ sosCredit = [u \in Users |-> 1]
  /\ sosEvents = <<>>
  /\ sosHits = [w \in Workers |-> [ip \in Ips |-> 0]]
  /\ refreshTokens = <<[token |-> 1, isValid |-> TRUE, expiresAt |-> RefreshTtl,
                        deleted |-> FALSE],
                       [token |-> 2, isValid |-> TRUE, expiresAt |-> -1,
                        deleted |-> FALSE]>>

InitFor(production) == InitWith(production, {})

Init == InitFor(FALSE)

\* ------------------------------------------------- connection events
\* client.on('error' / 'end'): isReady = false
RedisError(w) ==
  /\ w \in alive /\ env.REDIS_URL /\ isReady[w]
  /\ isReady' = [isReady EXCEPT ![w] = FALSE]
  /\ UNCHANGED <<cfgVars, producer, isProducerReady, now, storeVars, logVars,
                 dbVars, sockVars, slot, nreq, ghostVars, extVars>>

\* client.on('ready'): isReady = true
RedisReady(w) ==
  /\ w \in alive /\ env.REDIS_URL /\ ~isReady[w]
  /\ isReady' = [isReady EXCEPT ![w] = TRUE]
  /\ UNCHANGED <<cfgVars, producer, isProducerReady, now, storeVars, logVars,
                 dbVars, sockVars, slot, nreq, ghostVars, extVars>>

\* producer.on('producer.disconnect'): isProducerReady = false
ProducerDisconnect(w) ==
  /\ w \in alive /\ producer[w] = "kafka" /\ isProducerReady[w]
  /\ isProducerReady' = [isProducerReady EXCEPT ![w] = FALSE]
  /\ UNCHANGED <<cfgVars, producer, isReady, now, storeVars, logVars,
                 dbVars, sockVars, slot, nreq, ghostVars, extVars>>

\* producer.on('producer.connect'): isProducerReady = true
ProducerConnect(w) ==
  /\ w \in alive /\ producer[w] = "kafka" /\ ~isProducerReady[w]
  /\ isProducerReady' = [isProducerReady EXCEPT ![w] = TRUE]
  /\ UNCHANGED <<cfgVars, producer, isReady, now, storeVars, logVars,
                 dbVars, sockVars, slot, nreq, ghostVars, extVars>>

\* -------------------------------------------------------------- time
Recent(ts, t) == SelectSeq(ts, LAMBDA x : x > t - TicksPerSec)

\* The clock advances by d ticks; keys whose TTL has passed are gone.
Advance(d) ==
  /\ now' = now + d
  /\ cache' = [st \in Workers |-> [v \in Vehicles |->
                 IF cache[st][v].present /\ Expired(cache[st][v], now')
                 THEN NoLoc ELSE cache[st][v]]]
  /\ throttle' = [st \in Workers |-> [v \in Vehicles |->
                 IF CounterExpired(throttle[st][v], now')
                 THEN NoCounter ELSE throttle[st][v]]]
  /\ winPassed' = [st \in Workers |-> [v \in Vehicles |->
                 IF CounterExpired(throttle[st][v], now')
                 THEN 0 ELSE winPassed[st][v]]]
  /\ passTimes' = [v \in Vehicles |-> Recent(passTimes[v], now')]
  /\ lapsed' = [v \in Vehicles |-> lapsed[v] \/ \E st \in Workers :
                 cache[st][v].present /\ Expired(cache[st][v], now')]
  /\ UNCHANGED <<cfgVars, connVars, logVars, dbVars, sockVars, slot, nreq,
                 firstPos, stationary, fwd, lost, acked, extVars>>

Tick ==
  /\ now % CacheTtl < MaxTicks
  /\ Advance(1)

\* One second passes in one step.
SecondPasses ==
  /\ now % CacheTtl < MaxSecs * TicksPerSec
  /\ Advance(TicksPerSec)

\* The cache TTL passes in one step.
TtlPasses ==
  /\ now \div CacheTtl < MaxJumps
  /\ Advance(CacheTtl)


\* ------------------------------------- pushLocation (HTTP single push)
Free(r) == slot[r].pc \in {"idle", "done"}
Handler(r, kind, pc) == slot[r].kind = kind /\ slot[r].pc = pc

\* Less than minMeters away from position p (the dead zone of pushLocation).
Within(p, lat, lng) ==
  LET dLat == (lat - p.lat) * UnitMetres
      dLng == (lng - p.lng) * UnitMetres
  IN  dLat * dLat + dLng * dLng < 10 * 10

\* The router has validated the body (locationPing): lat and lng are in
\* range and timestamp is the client's or, by default, the arrival time.
StartPush(r, w, v, lat, lng, ts) ==
  /\ Free(r) /\ w \in alive
  /\ slot' = [slot EXCEPT ![r] =
       [Idle EXCEPT !.kind = "push", !.pc = "throttle", !.w = w, !.v = v,
                    !.lat = lat, !.lng = lng, !.ts = ts]]
  /\ nreq' = nreq + 1
  /\ firstPos' = IF firstPos[v].set THEN firstPos
                 ELSE [firstPos EXCEPT ![v] = [set |-> TRUE, lat |-> lat, lng |-> lng]]
  /\ stationary' = [stationary EXCEPT ![v] =
                      @ /\ (firstPos[v].set => Within(firstPos[v], lat, lng))]
  /\ UNCHANGED <<cfgVars, connVars, now, storeVars, logVars, dbVars, sockVars,
                 passTimes, winPassed, fwd, lapsed, lost, acked, extVars>>

\* Joi.number().min(-90).max(90) and Joi.number().min(-180).max(180)
LatOk(x) == x >= -90 /\ x <= 90
LngOk(x) == x >= -180 /\ x <= 180

\* schema.validate with abortEarly left at its default: the first error only.
PingErrorsFirst(lat, lng) ==
  IF ~LatOk(lat) THEN {<<0, "lat">>}
  ELSE IF ~LngOk(lng) THEN {<<0, "lng">>} ELSE {}

\* error.details of schemas.locationPing for a body, as the set of the paths
\* that offend; with abortEarly: false every offending field is listed.  A
\* path is <<index, field>>, index 0 for the body itself.
PingErrors(lat, lng) ==
  {<<0, f>> : f \in {g \in {"lat", "lng"} :
                       \/ g = "lat" /\ ~LatOk(lat)
                       \/ g = "lng" /\ ~LngOk(lng)}}

\* validate(schemas.locationPing) finds an error: 400 with the details, and
\* next() is never called, so pushLocation does not run.  rateLimiters.location
\* in front of it passes the request on: fewer than its 10 requests have come
\* for the vehicle in this second.
RefusePush(r, w, v, lat, lng) ==
  /\ Free(r) /\ w \in alive
  /\ PingErrors(lat, lng) # {}
  /\ slot' = [slot EXCEPT ![r] =
       [Idle EXCEPT !.kind = "push", !.pc = "done", !.w = w, !.v = v,
                    !.lat = lat, !.lng = lng, !.status = 400,
                    !.error = "Validation failed",
                    !.details = PingErrors(lat, lng)]]
  /\ nreq' = nreq + 1
  /\ UNCHANGED <<cfgVars, connVars, now, storeVars, logVars, dbVars, sockVars,
                 ghostVars, extVars>>

Reject429(q) ==
  [q EXCEPT !.pc = "done", !.status = 429, !.retryAfterMs = RetryAfterMs]

\* isVehicleThrottled up to its first await: client.incr(key)
PushThrottle(r, fail) ==
  /\ Handler(r, "push", "throttle")
  /\ fail => (env.REDIS_URL /\ isReady[slot[r].w])
  /\ LET q == slot[r]
         st == StoreOf(q.w)
         n == Incr(st, q.v)
     IN
     IF ~isReady[q.w] \/ fail
     THEN \* not ready, or incr throws: return false
          /\ slot' = [slot EXCEPT ![r].pc = "moved",
                                  ![r].failed = @ \cup {"incr"}]
          /\ passTimes' = [passTimes EXCEPT ![q.v] = Append(@, now)]
          /\ UNCHANGED <<throttle, winPassed, extVars>>
     ELSE /\ throttle' = [throttle EXCEPT ![st][q.v].n = n]
          /\ IF n = 1
             THEN /\ slot' = [slot EXCEPT ![r].pc = "expire", ![r].count = n,
                                          ![r].effects = @ \cup {"throttle"}]
                  /\ UNCHANGED <<passTimes, winPassed, extVars>>
             ELSE IF OverLimit(n)
             THEN /\ slot' = [slot EXCEPT ![r] =
                       Reject429([q EXCEPT !.count = n,
                                           !.effects = @ \cup {"throttle"}])]
                  /\ UNCHANGED <<passTimes, winPassed, extVars>>
             ELSE /\ slot' = [slot EXCEPT ![r].pc = "moved", ![r].count = n,
                                          ![r].effects = @ \cup {"throttle"}]
                  /\ passTimes' = [passTimes EXCEPT ![q.v] = Append(@, now)]
                  /\ winPassed' = [winPassed EXCEPT ![st][q.v] = @ + 1]
  /\ UNCHANGED <<cfgVars, connVars, now, cache, logVars, dbVars, sockVars,
                 nreq, firstPos, stationary, fwd, lapsed, lost, acked,
                 extVars>>

\* isVehicleThrottled after incr returned 1: client.expire(key, 1), then
\* return count > maxPerSec (false when expire throws)
PushExpire(r, fail) ==
  /\ Handler(r, "push", "expire")
  /\ fail => env.REDIS_URL
  /\ LET q == slot[r]
         st == StoreOf(q.w)
     IN
     /\ throttle' = IF fail THEN throttle
                    ELSE [throttle EXCEPT ![st][q.v].hasExp = TRUE,
                                          ![st][q.v].exp = now + ThrottleWindow]
     /\ IF ~fail /\ OverLimit(q.count)
        THEN /\ slot' = [slot EXCEPT ![r] = Reject429(q)]
             /\ UNCHANGED <<passTimes, winPassed, extVars>>
        ELSE /\ slot' = [slot EXCEPT ![r].pc = "moved",
                       ![r].failed = IF fail THEN @ \cup {"expire"} ELSE @]
             /\ passTimes' = [passTimes EXCEPT ![q.v] = Append(@, now)]
             /\ winPassed' = [winPassed EXCEPT ![st][q.v] = @ + 1]
  /\ UNCHANGED <<cfgVars, connVars, now, cache, logVars, dbVars, sockVars,
                 nreq, firstPos, stationary, fwd, lapsed, lost, acked,
                 extVars>>

\* hasMovedEnough, and the no_movement response
PushMoved(r, fail) ==
  /\ Handler(r, "push", "moved")
  /\ fail => (env.REDIS_URL /\ isReady[slot[r].w])
  /\ LET q == slot[r]
         prev == GetCachedLocation(q.w, q.v, fail)
         moved == HasMovedEnough(prev, q.lat, q.lng)
     IN
     IF moved
     THEN /\ slot' = [slot EXCEPT ![r].pc = "cache", ![r].moved = TRUE,
                                  ![r].filtered = TRUE,
                                  ![r].failed = IF ~isReady[q.w] \/ fail
                                                THEN @ \cup {"get"} ELSE @]
          /\ fwd' = [fwd EXCEPT ![q.v] = @ + 1]
     ELSE /\ slot' = [slot EXCEPT ![r].pc = "done", ![r].filtered = TRUE,
                                  ![r].status = 200, ![r].reason = "no_movement",
                                  ![r].nextPingMs = NextPingMs,
                                  ![r].failed = IF ~isReady[q.w] \/ fail
                                                THEN @ \cup {"get"} ELSE @]
          /\ UNCHANGED fwd
  /\ UNCHANGED <<cfgVars, connVars, now, storeVars, logVars, dbVars, sockVars,
                 nreq, passTimes, winPassed, firstPos, stationary, lapsed, lost, acked,
                 extVars>>

\* redis.cacheLocation(vehicleId, payload): false when not ready or when
\* setEx throws; the result is not looked at
PushCache(r, fail) ==
  /\ Handler(r, "push", "cache")
  /\ fail => (env.REDIS_URL /\ isReady[slot[r].w])
  /\ LET q == slot[r]
         ok == isReady[q.w] /\ ~fail
     IN
     /\ cache' = IF ok THEN SetEx(cache, StoreOf(q.w), q.v, q.lat, q.lng, q.ts)
                 ELSE cache
     /\ slot' = [slot EXCEPT ![r].pc = "publish", ![r].cached = ok,
                   ![r].effects = IF ok THEN @ \cup {"cache"} ELSE @,
                   ![r].failed = IF ok THEN @ ELSE @ \cup {"set"}]
  /\ lastSet' = IF isReady[slot[r].w] /\ ~fail
                THEN [lastSet EXCEPT ![StoreOf(slot[r].w)][slot[r].v] = now]
                ELSE lastSet
  /\ UNCHANGED <<cfgVars, connVars, now, throttle, logVars, dbVars, sockVars,
                 nreq, ghostVars, swept, partVars,
                 sosVars,
                 refreshTokens>>

\* The writes the fallback starts and does not await.
DirectWrites(q) ==
  <<[op |-> "create", vehicleId |-> q.v, lat |-> q.lat, lng |-> q.lng, ts |-> q.ts],
    [op |-> "status", vehicleId |-> q.v, lat |-> 0, lng |-> 0, ts |-> now]>>

\* kafka.publishLocation(payload); when it returns false the direct write,
\* the status update and the two emits; then res.json({ accepted: true })
PushPublish(r, sendOk) ==
  /\ Handler(r, "push", "publish")
  /\ ~sendOk => (producer[slot[r].w] = "kafka" /\ isProducerReady[slot[r].w])
  /\ LET q == slot[r]
         kafkaOk == PublishLocation(q.w, sendOk)
     IN
     /\ log' = IF Appended(q.w, sendOk)
               THEN Append(log, Doc(q.v, q.lat, q.lng, q.ts)) ELSE log
     /\ pending' = IF kafkaOk THEN pending ELSE pending \o DirectWrites(q)
     /\ inbox' = IF kafkaOk THEN inbox
                 ELSE Emit(Emit(inbox, q.w, VehicleRoom(q.v), Msg("location", q.v, q.ts)),
                           q.w, NearbyAll, Msg("vehicle-moved", q.v, 0))
     /\ slot' = [slot EXCEPT ![r].pc = "done", ![r].status = 200,
                   ![r].nextPingMs = NextPingMs, ![r].kafkaOk = kafkaOk,
                   ![r].logDown = LogUnavailable(q.w, sendOk),
                   ![r].effects = @ \cup (IF Appended(q.w, sendOk) THEN {"log"} ELSE {})
                                    \cup (IF kafkaOk THEN {} ELSE {"history", "desc", "room"})]
     /\ acked' = [acked EXCEPT ![q.v] = Max(@, q.ts)]
  /\ UNCHANGED <<cfgVars, connVars, now, storeVars, dbOffset, fanOffset, fanOwner,
                 observed, history, desc, conn, rooms, joinAt, joinMark,
                 nreq, passTimes, winPassed, firstPos, stationary, fwd, lapsed,
                 lost, extVars>>

\* --------------------------------------------------- batchLocations
\* POST /batch/locations: validate(schemas.locationBatch), then the handler.
\* An element is [vehicleId, lat, lng]; vehicleId "" stands for a missing or
\* empty id.

\* One item of schemas.locationBatch: vehicleId a non-empty string, lat and
\* lng numbers in range, all three required.
JoiItemOk(u) == u.vehicleId # "" /\ LatOk(u.lat) /\ LngOk(u.lng)

\* schema.validate(req.body, { abortEarly: false }): no error only when the
\* array has 1..1000 items and every item passes.
LocationBatchOk(updates) ==
  /\ Len(updates) >= 1 /\ Len(updates) <= BatchMax
  /\ \A i \in 1..Len(updates) : JoiItemOk(updates[i])

\* error.details of schemas.locationBatch: the array's own length rule and
\* every offending field of every item.
BatchErrors(updates) ==
  LET n == Len(updates)
      Bad(i, f) == \/ f = "vehicleId" /\ updates[i].vehicleId = ""
                   \/ f = "lat" /\ ~LatOk(updates[i].lat)
                   \/ f = "lng" /\ ~LngOk(updates[i].lng)
  IN  (IF n < 1 \/ n > BatchMax THEN {<<0, "updates">>} ELSE {})
      \cup {e \in (1..n) \X {"vehicleId", "lat", "lng"} : Bad(e[1], e[2])}

\* The handler's own test of an element.
HandlerItemOk(u) == u.vehicleId # "" /\ LatOk(u.lat) /\ LngOk(u.lng)
HandlerItemBad(u) == ~HandlerItemOk(u)

\* valid.push({...}) and invalid.push(u.vehicleId || 'unknown'), in input order
ValidOf(updates) == SelectSeq(updates, HandlerItemOk)
InvalidOf(updates) ==
  LET bad == SelectSeq(updates, HandlerItemBad) IN
  [i \in 1..Len(bad) |->
     IF bad[i].vehicleId = "" THEN "unknown" ELSE bad[i].vehicleId]

\* invalid.slice(0, 10)
Slice(q, n) == SubSeq(q, 1, IF Len(q) < n THEN Len(q) ELSE n)

\* res.json({ processed, rejected, ...(invalid.length && { rejectedIds }) })
BatchAnswer(q) ==
  [q EXCEPT !.pc = "done", !.status = 200, !.counted = TRUE,
            !.processed = Len(q.valid), !.rejected = Len(q.invalid),
            !.rejectedIds = Slice(q.invalid, RejectedShown)]

\* The request passes the validator and the handler runs to its first await,
\* or one of the two answers 400.
StartBatch(r, w, updates) ==
  /\ Free(r) /\ w \in alive
  /\ LET q == [Idle EXCEPT !.kind = "batch", !.w = w, !.updates = updates] IN
     slot' = [slot EXCEPT ![r] =
       IF ~LocationBatchOk(updates)
       THEN [q EXCEPT !.pc = "done", !.status = 400,
                      !.error = "Validation failed",
                      !.details = BatchErrors(updates)]
       ELSE IF ValidOf(updates) = <<>>
       THEN [q EXCEPT !.pc = "done", !.status = 400,
                      !.error = "No valid updates in batch",
                      !.invalid = InvalidOf(updates)]
       ELSE [q EXCEPT !.pc = "cacheBatch", !.valid = ValidOf(updates),
                      !.invalid = InvalidOf(updates)]]
  /\ nreq' = nreq + 1
  /\ UNCHANGED <<cfgVars, connVars, now, storeVars, logVars, dbVars, sockVars,
                 ghostVars, extVars>>

RECURSIVE SetExAll(_, _, _)
SetExAll(c, st, us) ==
  IF us = <<>> THEN c
  ELSE SetExAll(SetEx(c, st, us[1].vehicleId, us[1].lat, us[1].lng, now),
                st, Tail(us))

\* redis.cacheBatchLocations(valid): one pipeline of setEx, skipped when not
\* ready, its error logged
BatchCache(r, fail) ==
  /\ Handler(r, "batch", "cacheBatch")
  /\ fail => (env.REDIS_URL /\ isReady[slot[r].w])
  /\ LET q == slot[r]
         ok == isReady[q.w] /\ ~fail
     IN
     /\ cache' = IF ok THEN SetExAll(cache, StoreOf(q.w), q.valid) ELSE cache
     /\ slot' = [slot EXCEPT ![r].pc = "publishBatch", ![r].cached = ok]
  /\ lastSet' = IF isReady[slot[r].w] /\ ~fail
                THEN [lastSet EXCEPT ![StoreOf(slot[r].w)] =
                        [v \in Vehicles |->
                           IF \E i \in 1..Len(slot[r].valid) :
                                slot[r].valid[i].vehicleId = v
                           THEN now ELSE @[v]]]
                ELSE lastSet
  /\ UNCHANGED <<cfgVars, connVars, now, throttle, logVars, dbVars, sockVars,
                 nreq, ghostVars, swept, partVars,
                 sosVars,
                 refreshTokens>>

DocsOf(us) == [i \in 1..Len(us) |-> Doc(us[i].vehicleId, us[i].lat, us[i].lng, now)]

\* kafka.publishBatchLocations(valid): false when not ready or when the send
\* throws; the answer follows when it is true
BatchPublish(r, sendOk) ==
  /\ Handler(r, "batch", "publishBatch")
  /\ ~sendOk => (producer[slot[r].w] = "kafka" /\ isProducerReady[slot[r].w])
  /\ LET q == slot[r]
         kafkaOk == PublishLocation(q.w, sendOk)
     IN
     /\ log' = IF Appended(q.w, sendOk) THEN log \o DocsOf(q.valid) ELSE log
     /\ slot' = [slot EXCEPT ![r] =
          IF kafkaOk THEN [BatchAnswer(q) EXCEPT !.kafkaOk = TRUE]
          ELSE [q EXCEPT !.pc = "bulk", !.logDown = TRUE]]
  /\ UNCHANGED <<cfgVars, connVars, now, storeVars, dbOffset, fanOffset,
                 fanOwner, observed, dbVars, sockVars, nreq, ghostVars,
                 extVars>>

\* await Promise.allSettled([insertMany(valid), Vehicle.updateMany(...)]),
\* the batch-moved emit, and the answer
BatchBulk(r, insertOk, updateOk) ==
  /\ Handler(r, "batch", "bulk")
  /\ LET q == slot[r]
         ids == {q.valid[i].vehicleId : i \in 1..Len(q.valid)}
     IN
     /\ history' = IF insertOk THEN history \o DocsOf(q.valid) ELSE history
     /\ desc' = IF updateOk
                THEN [v \in Vehicles |->
                        IF v \in ids THEN [status |-> "active", lastSeen |-> now]
                        ELSE desc[v]]
                ELSE desc
     /\ inbox' = Emit(inbox, q.w, NearbyAll,
                      Msg("batch-moved", q.valid[1].vehicleId, now))
     /\ slot' = [slot EXCEPT ![r] = BatchAnswer(q)]
  /\ UNCHANGED <<cfgVars, connVars, now, storeVars, logVars, pending, conn,
                 rooms, joinAt, joinMark, nreq, ghostVars, extVars>>

\* A write started by a fallback settles: it is applied, or it rejects and
\* the rejection is logged.
Remove(q, i) == SubSeq(q, 1, i - 1) \o SubSeq(q, i + 1, Len(q))
Apply(i, ok) ==
  /\ i \in 1..Len(pending)
  /\ LET o == pending[i] IN
     /\ history' = IF ok /\ o.op = "create"
                   THEN Append(history, Doc(o.vehicleId, o.lat, o.lng, o.ts))
                   ELSE history
     /\ desc' = IF ok /\ o.op = "status"
                THEN [desc EXCEPT ![o.vehicleId] = [status |-> "active", lastSeen |-> o.ts]]
                ELSE desc
  /\ pending' = Remove(pending, i)
  /\ lost' = IF ~ok /\ pending[i].op = "create"
             THEN lost \cup {Doc(pending[i].vehicleId, pending[i].lat,
                                 pending[i].lng, pending[i].ts)}
             ELSE lost
  /\ UNCHANGED <<cfgVars, connVars, now, storeVars, logVars, sockVars, slot,
                 nreq, passTimes, winPassed, firstPos, stationary, fwd, lapsed,
                 acked, extVars>>

WriteSettles(i) == Apply(i, TRUE)
WriteRejects(i) == Apply(i, FALSE)


\* ------------------------------------------- getLocation (HTTP GET)
StartGet(r, w, v) ==
  /\ Free(r) /\ w \in alive
  /\ slot' = [slot EXCEPT ![r] =
       [Idle EXCEPT !.kind = "get", !.pc = "gcache", !.w = w, !.v = v,
                    !.floor = acked[v]]]
  /\ nreq' = nreq + 1
  /\ UNCHANGED <<cfgVars, connVars, now, storeVars, logVars, dbVars, sockVars,
                 ghostVars, extVars>>

\* redis.getCachedLocation(vehicleId); a hit is answered from the cache
GetCache(r, fail) ==
  /\ Handler(r, "get", "gcache")
  /\ fail => (env.REDIS_URL /\ isReady[slot[r].w])
  /\ LET q == slot[r]
         cached == GetCachedLocation(q.w, q.v, fail)
     IN
     slot' = IF cached.present
             THEN [slot EXCEPT ![r].pc = "done", ![r].status = 200,
                     ![r].lat = cached.lat, ![r].lng = cached.lng,
                     ![r].ts = cached.ts, ![r].source = "cache"]
             ELSE [slot EXCEPT ![r].pc = "find",
                     ![r].failed = IF ~isReady[q.w] \/ fail
                                   THEN @ \cup {"get"} ELSE @]
  /\ UNCHANGED <<cfgVars, connVars, now, storeVars, logVars, dbVars, sockVars,
                 nreq, ghostVars, extVars>>

\* LocationLog.findOne({ vehicleId }).sort({ timestamp: -1 }); 404 when none
GetFind(r) ==
  /\ Handler(r, "get", "find")
  /\ LET q == slot[r]
         found == FindNewest(q.v)
     IN
     slot' = IF found.present
             THEN [slot EXCEPT ![r].pc = "repop", ![r].lat = found.lat,
                     ![r].lng = found.lng, ![r].ts = found.ts]
             ELSE [slot EXCEPT ![r].pc = "done", ![r].status = 404]
  /\ UNCHANGED <<cfgVars, connVars, now, storeVars, logVars, dbVars, sockVars,
                 nreq, ghostVars, extVars>>

\* redis.cacheLocation(vehicleId, log), then res.json({ ...log, _source: 'db' })
GetRepopulate(r, fail) ==
  /\ Handler(r, "get", "repop")
  /\ fail => (env.REDIS_URL /\ isReady[slot[r].w])
  /\ LET q == slot[r]
         ok == isReady[q.w] /\ ~fail
     IN
     /\ cache' = IF ok THEN SetEx(cache, StoreOf(q.w), q.v, q.lat, q.lng, q.ts)
                 ELSE cache
     /\ slot' = [slot EXCEPT ![r].pc = "done", ![r].status = 200,
                   ![r].source = "db", ![r].cached = ok,
                   ![r].effects = IF ok THEN @ \cup {"cache"} ELSE @,
                   ![r].failed = IF ok THEN @ ELSE @ \cup {"set"}]
  /\ lastSet' = IF isReady[slot[r].w] /\ ~fail
                THEN [lastSet EXCEPT ![StoreOf(slot[r].w)][slot[r].v] = now]
                ELSE lastSet
  /\ UNCHANGED <<cfgVars, connVars, now, throttle, logVars, dbVars, sockVars,
                 nreq, ghostVars, swept, partVars,
                 sosVars,
                 refreshTokens>>

\* ---------------------------------------------- sosController.trigger
\* POST /api/sos: auth, rateLimiters.sos, trigger.  The request of user u
\* arrives from address ip at worker w; auth awaits User.findById.
StartSos(r, w, u, ip) ==
  /\ Free(r) /\ w \in alive
  /\ slot' = [slot EXCEPT ![r] =
       [Idle EXCEPT !.kind = "sos", !.pc = "auth", !.w = w, !.user = u,
                    !.ip = ip]]
  /\ nreq' = nreq + 1
  /\ UNCHANGED <<cfgVars, connVars, now, storeVars, logVars, dbVars, sockVars,
                 ghostVars, extVars>>

\* findById resolves and req.user holds the document as read; the limiter
\* counts the hit and answers 429 past 1 per IP; trigger answers 403 when
\* req.user.sosCredit <= 0, else starts SOS.create and the $inc and awaits
\* both.
SosAuth(r) ==
  /\ Handler(r, "sos", "auth")
  /\ LET q == [slot[r] EXCEPT !.credit = sosCredit[slot[r].user]]
         hits == sosHits[q.w][q.ip] + 1
     IN
     /\ sosHits' = [sosHits EXCEPT ![q.w][q.ip] = hits]
     /\ slot' = [slot EXCEPT ![r] =
          IF hits > SosPerDay
          THEN [q EXCEPT !.pc = "done", !.status = 429]
          ELSE IF q.credit <= 0
          THEN [q EXCEPT !.pc = "done", !.status = 403,
                         !.code = "SOS_CREDIT_EXHAUSTED"]
          ELSE [q EXCEPT !.pc = "write"]]
  /\ UNCHANGED <<cfgVars, connVars, now, storeVars, logVars, dbVars, sockVars,
                 nreq, ghostVars, swept, partVars, lastSet, sosCredit,
                 sosEvents,
                 refreshTokens>>

\* Promise.all([SOS.create, User.findByIdAndUpdate($inc: -1)]) resolves; the
\* sos-alert is emitted to nearby-all and the request answered.
SosWrite(r) ==
  /\ Handler(r, "sos", "write")
  /\ sosEvents' = Append(sosEvents, slot[r].user)
  /\ sosCredit' = [sosCredit EXCEPT ![slot[r].user] = @ - 1]
  /\ inbox' = Emit(inbox, slot[r].w, NearbyAll, Msg("sos-alert", "", now))
  /\ slot' = [slot EXCEPT ![r].pc = "done", ![r].status = 200]
  /\ UNCHANGED <<cfgVars, connVars, now, storeVars, logVars, dbVars, conn,
                 rooms, joinAt, joinMark, nreq, ghostVars, swept, partVars,
                 lastSet, sosHits,
                 refreshTokens>>

\* ------------------------------------------- getNearby (HTTP GET)
\* GET /api/nearby?lat&lng&radius.  The query is not validated: lat and lng
\* are any numbers, radius is in km.  A coordinate unit is UnitMetres metres.
NearbyWindow == NearbyWindowSec * TicksPerSec

\* The isPublic field of the Vehicle documents: a was registered as public,
\* b was not (the schema's default).
IsPublic(v) == v = "a"

\* Variant of the radius: the query's radius is taken as it is.
RadiusUncapped(radius) == radius

\* Math.min(5, parseFloat(radius))
RadiusKm(radius) == IF radius < NearbyCapKm THEN radius ELSE NearbyCapKm

\* The handler up to its first await; 400 when lat or lng is missing.
StartNearby(r, w, given, lat, lng, radius) ==
  /\ Free(r) /\ w \in alive
  /\ slot' = [slot EXCEPT ![r] =
       IF ~given
       THEN [Idle EXCEPT !.kind = "nearby", !.pc = "done", !.w = w,
                         !.status = 400, !.error = "lat and lng required"]
       ELSE [Idle EXCEPT !.kind = "nearby", !.pc = "aggregate", !.w = w,
                         !.lat = lat, !.lng = lng, !.radius = radius,
                         !.radiusKm = RadiusKm(radius)]]
  /\ nreq' = nreq + 1
  /\ UNCHANGED <<cfgVars, connVars, now, storeVars, logVars, dbVars, sockVars,
                 ghostVars, extVars>>

\* LocationLog.aggregate: $match the rows of the last 60 s, $sort and $group
\* to the first (newest) row of each vehicle, $addFields distKm, $match
\* distKm <= radiusKm, $sort by distKm, $limit 100.  Rows of one vehicle
\* with equal timestamps, and vehicles at equal distances, come in either
\* order.  Vehicle.find then adds the public descriptor fields, which the
\* model does not carry, and the answer is sent.  Distances are compared on
\* their squares, in square metres.
NearbyAggregate(r) ==
  /\ Handler(r, "nearby", "aggregate")
  /\ LET q == slot[r]
         recent == {i \in 1..Len(history) : history[i].ts >= now - NearbyWindow}
         ids == {history[i].vehicleId : i \in recent}
         First(v) == {i \in recent :
                        /\ history[i].vehicleId = v
                        /\ \A j \in recent : history[j].vehicleId = v =>
                             history[j].ts <= history[i].ts}
         Dist2(i) == ((history[i].lat - q.lat) * (history[i].lat - q.lat)
                      + (history[i].lng - q.lng) * (history[i].lng - q.lng))
                     * UnitMetres * UnitMetres
         limit2 == q.radiusKm * 1000 * q.radiusKm * 1000
     IN
     \E group \in [ids -> recent] :
       /\ \A v \in ids : group[v] \in First(v)
       /\ LET near == {group[v] : v \in {x \in ids : Dist2(group[x]) <= limit2}}
              n == Cardinality(near)
          IN
          \E sorted \in [1..n -> near] :
            /\ \A i, j \in 1..n : i < j =>
                 (sorted[i] # sorted[j] /\ Dist2(sorted[i]) <= Dist2(sorted[j]))
            /\ slot' = [slot EXCEPT ![r].pc = "done", ![r].status = 200,
                 ![r].data = Slice([i \in 1..n |-> history[sorted[i]]],
                                   NearbyLimit),
                 ![r].count = IF n < NearbyLimit THEN n ELSE NearbyLimit]
  /\ UNCHANGED <<cfgVars, connVars, now, storeVars, logVars, dbVars, sockVars,
                 nreq, ghostVars, extVars>>

\* ------------------------------------------------ socketHandler.js
\* socket.handshake.auth?.token: absent, one that jwt.verify rejects, or one
\* it accepts.
Tokens == {"none", "invalid", "valid"}

\* Variant of the check: any token that is present is taken.
VerifyAny(token) == token # "none"

\* if (!token) anonymous; jwt.verify(token, JWT_SECRET) throws unless valid
Verify(token) == token = "valid"

\* io.use: userId is set only when the handshake token verifies, and next()
\* is called either way; then on 'connection' the socket joins nearby-all.
\* pushes counts the push:location events the connection has sent.
Connect(s, token) ==
  /\ ~conn[s].connected /\ SessWorker[s] \in alive
  /\ conn' = [conn EXCEPT ![s] = [connected |-> TRUE, userId |-> Verify(token),
                                  token |-> token, pushes |-> 0,
                errors |-> 0]]
  /\ rooms' = [rooms EXCEPT ![s] = {NearbyAll}]
  /\ UNCHANGED <<cfgVars, connVars, now, storeVars, logVars, dbVars, inbox,
                 joinAt, joinMark, slot, nreq, ghostVars, extVars>>

\* What a subscriber could have been sent at the moment it joins: the newest
\* of the cache entry and the newest history row (-1 when neither exists).
NewestKnown(w, v) ==
  Max(IF cache[StoreOf(w)][v].present THEN cache[StoreOf(w)][v].ts ELSE -1,
      NewestTs(v))

\* 'subscribe:vehicle': socket.join, then getRedis().get(...).  getRedis()
\* returns config/redis `redis`, which only connectRedis assigns; reading
\* .get of null throws and the handler ends there.  With the no-op client
\* get resolves null and the newest history row, if any, is emitted.
SubscribeVehicle(s, v) ==
  /\ conn[s].connected /\ VehicleRoom(v) \notin rooms[s]
  /\ rooms' = [rooms EXCEPT ![s] = @ \cup {VehicleRoom(v)}]
  /\ joinAt' = [joinAt EXCEPT ![s] = Len(inbox[s])]
  /\ joinMark' = [joinMark EXCEPT ![s] = NewestKnown(SessWorker[s], v)]
  /\ inbox' = IF cfgRedis[SessWorker[s]] = "null" \/ ~FindNewest(v).present
              THEN inbox
              ELSE [inbox EXCEPT ![s] = Append(@, Msg("location", v, NewestTs(v)))]
  /\ UNCHANGED <<cfgVars, connVars, now, storeVars, logVars, dbVars, conn,
                 slot, nreq, ghostVars, extVars>>

\* 'unsubscribe:vehicle': socket.leave
UnsubscribeVehicle(s, v) ==
  /\ conn[s].connected /\ VehicleRoom(v) \in rooms[s]
  /\ rooms' = [rooms EXCEPT ![s] = @ \ {VehicleRoom(v)}]
  /\ UNCHANGED <<cfgVars, connVars, now, storeVars, logVars, dbVars, conn,
                 inbox, joinAt, joinMark, slot, nreq, ghostVars, extVars>>

\* 'disconnect': the socket leaves every room
Disconnect(s) ==
  /\ conn[s].connected
  /\ conn' = [conn EXCEPT ![s] = [connected |-> FALSE, userId |-> FALSE,
                                  token |-> "none", pushes |-> 0,
                errors |-> 0]]
  /\ rooms' = [rooms EXCEPT ![s] = {}]
  /\ UNCHANGED <<cfgVars, connVars, now, storeVars, logVars, dbVars, inbox,
                 joinAt, joinMark, slot, nreq, ghostVars, extVars>>

\* 'error': the message is written to the console; the socket stays open and
\* keeps its rooms.  errors counts the lines written for the connection.
SocketError(s) ==
  /\ conn[s].connected /\ conn[s].errors < MaxSockErrors
  /\ conn' = [conn EXCEPT ![s].errors = @ + 1]
  /\ UNCHANGED <<cfgVars, connVars, now, storeVars, logVars, dbVars, rooms,
                 inbox, joinAt, joinMark, slot, nreq, ghostVars, extVars>>

\* 'push:location': needs socket.userId; then getRedis().setEx(...), which
\* throws on null before anything is written or emitted.  With the no-op
\* client nothing is cached, the two writes are started and the emits made.
SocketPush(s, v, lat, lng) ==
  /\ conn[s].connected /\ conn[s].pushes < MaxSockPush
  /\ conn' = [conn EXCEPT ![s].pushes = @ + 1]
  /\ LET w == SessWorker[s]
         q == [Idle EXCEPT !.v = v, !.lat = lat, !.lng = lng, !.ts = now]
         runs == conn[s].userId /\ cfgRedis[w] # "null"
     IN
     /\ pending' = IF runs THEN pending \o DirectWrites(q) ELSE pending
     /\ inbox' = IF runs
                 THEN Emit(Emit(inbox, w, VehicleRoom(v), Msg("location", v, now)),
                           w, NearbyAll, Msg("vehicle-moved", v, 0))
                 ELSE inbox
  /\ UNCHANGED <<cfgVars, connVars, now, storeVars, logVars, history, desc,
                 rooms, joinAt, joinMark, slot, nreq, ghostVars, extVars>>

\* Variant of the sweeper's test: a room with one socket is taken as well.
EmptyOrSingle(sockets) == Cardinality(sockets) <= 1

\* sockets.size === 0
Empty(sockets) == Cardinality(sockets) = 0

\* setInterval(..., 5 * 60 * 1000): every room of the worker's adapter whose
\* socket set is empty is deleted from the adapter.  A session stays in a
\* room only while the adapter holds the room.
Sweep(w) ==
  /\ w \in alive /\ swept[w] < MaxSweeps
  /\ rooms' = [s \in Sessions |->
                IF SessWorker[s] = w
                THEN {room \in rooms[s] : ~Empty(Members(w, room))}
                ELSE rooms[s]]
  /\ swept' = [swept EXCEPT ![w] = @ + 1]
  /\ UNCHANGED <<cfgVars, connVars, now, storeVars, logVars, dbVars, conn,
                 inbox, joinAt, joinMark, slot, nreq, ghostVars, partVars,
                 lastSet, sosVars,
                 refreshTokens>>

\* ------------------------------------------------------- consumers
RECURSIVE FirstSeen(_)
\* The keys of latestByVehicle in insertion order.
FirstSeen(batch) ==
  IF batch = <<>> THEN <<>>
  ELSE LET init == FirstSeen(SubSeq(batch, 1, Len(batch) - 1))
           v == batch[Len(batch)].vehicleId
       IN  IF \E i \in 1..Len(init) : init[i] = v THEN init ELSE Append(init, v)

\* Variant of the map: a vehicle's first record is kept, later ones dropped.
EarliestOf(batch, v) ==
  batch[CHOOSE i \in 1..Len(batch) :
          /\ batch[i].vehicleId = v
          /\ \A j \in 1..(i - 1) : batch[j].vehicleId # v]

\* latestByVehicle.get(v): the last record of v in offset order
Latest(batch, v) ==
  batch[CHOOSE i \in 1..Len(batch) :
          /\ batch[i].vehicleId = v
          /\ \A j \in (i + 1)..Len(batch) : batch[j].vehicleId # v]

RECURSIVE EmitLatest(_, _, _, _)
EmitLatest(inb, w, batch, vs) ==
  IF vs = <<>> THEN inb
  ELSE EmitLatest(Emit(inb, w, VehicleRoom(vs[1]),
                       Msg("location", vs[1], Latest(batch, vs[1]).ts)),
                  w, batch, Tail(vs))

\* The 'batch-moved' message: [...latestByVehicle.values()].map(d => ({
\* vehicleId, lat, lng, speed, heading })), in the map's insertion order
BatchMoved(batch) ==
  [event |-> "batch-moved", vehicleId |-> "", ts |-> 0,
   entries |-> [i \in 1..Len(FirstSeen(batch)) |->
                  LET d == Latest(batch, FirstSeen(batch)[i]) IN
                  [vehicleId |-> d.vehicleId, lat |-> d.lat, lng |-> d.lng]]]

Fetch(offset, k) == SubSeq(log, offset + 1, offset + k)

\* A message value that JSON.parse throws on, written to the topic by some
\* other producer; the program's own records are JSON.stringify output.
NotJson == [vehicleId |-> "", lat |-> 0, lng |-> 0, ts |-> -1]
Parses(d) == d # NotJson

\* Another producer appends a record that is not JSON to the topic.
ForeignPublish ==
  /\ env.KAFKA_BROKERS
  /\ Cardinality({i \in 1..Len(log) : ~Parses(log[i])}) < MaxForeign
  /\ log' = Append(log, NotJson)
  /\ UNCHANGED <<cfgVars, connVars, now, storeVars, dbOffset, fanOffset,
                 fanOwner, observed, dbVars, sockVars, slot, nreq, ghostVars,
                 extVars>>

\* Variant of the runner: the batch's offsets are resolved only when the
\* handler's writes went through.
ResolvedOnSuccess(k, complete) == IF complete THEN k ELSE 0

\* The offsets the runner resolves when eachBatch has returned: the batch's
\* last offset, whatever the handler resolved itself.
Resolved(k, complete) == k

\* startLocationDbWriter eachBatch, handed k messages.  A message that does
\* not parse is logged and left out of docs; with no docs the handler
\* returns.  insertMany(docs, { ordered: false }) inserts the documents at
\* the positions `ins` and throws unless those are all of them; updateMany
\* follows only when it did not throw, then the heartbeat; a throw is caught
\* and logged.  The handler returns normally in every case, and the runner,
\* left at its default of resolving the batch's last offset, moves the
\* group's offset past the whole batch.
DbWriterRun(k, ins, updateOk) ==
  /\ env.KAFKA_BROKERS
  /\ k \in 1..(Len(log) - dbOffset)
  /\ LET batch == Fetch(dbOffset, k)
         parsed == {i \in 1..k : Parses(batch[i])}
         ids == {batch[i].vehicleId : i \in parsed}
         Inserted(i) == i \in parsed /\ i \in ins
         complete == parsed \subseteq ins
     IN
     /\ ins \subseteq 1..k
     /\ history' = history \o SelectSeq([i \in 1..k |->
                                           IF Inserted(i) THEN batch[i] ELSE NotJson],
                                        Parses)
     /\ desc' = IF parsed # {} /\ complete /\ updateOk
                THEN [v \in Vehicles |-> IF v \in ids
                        THEN [status |-> "active", lastSeen |-> now] ELSE desc[v]]
                ELSE desc
     /\ dbOffset' = dbOffset + Resolved(k, complete /\ updateOk)
  /\ UNCHANGED <<cfgVars, connVars, now, storeVars, log, fanOffset, fanOwner,
                 observed, pending, sockVars, slot, nreq, ghostVars,
                 extVars>>

\* The same with both writes succeeding (ok) or insertMany throwing with
\* nothing inserted.
DbWriterBatch(k, ok) == DbWriterRun(k, IF ok THEN 1..k ELSE {}, TRUE)

\* startWebSocketFanout eachBatch on the worker whose consumer holds the
\* partition: one 'location' per vehicle, one 'batch-moved' to nearby-all.
FanoutBatch(w, k) ==
  /\ env.KAFKA_BROKERS
  /\ w \in alive /\ w = fanOwner
  /\ k \in 1..(Len(log) - fanOffset)
  /\ LET batch == SelectSeq(Fetch(fanOffset, k), Parses) IN
     inbox' = IF batch = <<>> THEN inbox
              ELSE Emit(EmitLatest(inbox, w, batch, FirstSeen(batch)),
                        w, NearbyAll, BatchMoved(batch))
  /\ observed' = [observed EXCEPT ![w] = @ \cup ((fanOffset + 1)..(fanOffset + k))]
  /\ fanOffset' = fanOffset + k
  /\ UNCHANGED <<cfgVars, connVars, now, storeVars, log, dbOffset, fanOwner,
                 dbVars, conn, rooms, joinAt, joinMark, slot, nreq, ghostVars,
                 extVars>>

\* Variant of the message key: it is taken from the position, not from the
\* vehicle.
KeyOfPosition(d) == IF d.lng = 0 THEN "a" ELSE "b"

\* key: locationData.vehicleId / key: u.vehicleId
KeyOf(d) == d.vehicleId

\* Partitioners.LegacyPartitioner: the partition is a function of the key
\* alone; two keys may or may not share one.
PartitionOf(key) == IF key = "a" THEN 1 ELSE 2

\* The records of one partition of vehicle-locations, in offset order.
PartLog(p) ==
  LET InP(d) == PartitionOf(KeyOf(d)) = p IN SelectSeq(log, InP)

\* startLocationDbWriter eachBatch, handed k records of partition p
DbWriterPartition(p, k, ok) ==
  /\ env.KAFKA_BROKERS
  /\ k \in 1..(Len(PartLog(p)) - dbPart[p])
  /\ LET batch == SubSeq(PartLog(p), dbPart[p] + 1, dbPart[p] + k)
         ids == {batch[i].vehicleId : i \in 1..k}
     IN
     /\ history' = IF ok THEN history \o batch ELSE history
     /\ desc' = IF ok
                THEN [v \in Vehicles |-> IF v \in ids
                        THEN [status |-> "active", lastSeen |-> now] ELSE desc[v]]
                ELSE desc
  /\ dbPart' = [dbPart EXCEPT ![p] = @ + k]
  /\ UNCHANGED <<cfgVars, connVars, now, storeVars, logVars, pending, sockVars,
                 slot, nreq, ghostVars, swept, fanPart, lastSet, sosVars,
                 refreshTokens>>

\* startWebSocketFanout eachBatch on the worker that holds the partitions,
\* handed k records of partition p
FanoutPartition(w, p, k) ==
  /\ env.KAFKA_BROKERS
  /\ w \in alive /\ w = fanOwner
  /\ k \in 1..(Len(PartLog(p)) - fanPart[p])
  /\ LET batch == SubSeq(PartLog(p), fanPart[p] + 1, fanPart[p] + k) IN
     inbox' = Emit(EmitLatest(inbox, w, batch, FirstSeen(batch)),
                   w, NearbyAll, BatchMoved(batch))
  /\ fanPart' = [fanPart EXCEPT ![p] = @ + k]
  /\ UNCHANGED <<cfgVars, connVars, now, storeVars, logVars, dbVars, conn,
                 rooms, joinAt, joinMark, slot, nreq, ghostVars, swept, dbPart,
                 lastSet, sosVars,
                 refreshTokens>>

\* Variant of the rebalance: the new owner does not resume at the group's
\* committed offset but at the end of the partition.
RebalanceToLatest(w) ==
  /\ env.KAFKA_BROKERS
  /\ w \in alive /\ w # fanOwner
  /\ fanOwner' = w
  /\ fanOffset' = Len(log)
  /\ UNCHANGED <<cfgVars, connVars, now, storeVars, log, dbOffset,
                 observed, dbVars, sockVars, slot, nreq, ghostVars, extVars>>

\* Every worker's consumer joins the one group 'websocket-fanout'; the group
\* coordinator gives the partition to one member and may move it.
Rebalance(w) ==
  /\ env.KAFKA_BROKERS
  /\ w \in alive /\ w # fanOwner
  /\ fanOwner' = w
  /\ UNCHANGED <<cfgVars, connVars, now, storeVars, log, dbOffset, fanOffset,
                 observed, dbVars, sockVars, slot, nreq, ghostVars,
                 extVars>>

\* ---------------------------------------------------- specifications
LowestFree(r) == Free(r) /\ \A r2 \in Slots : r2 < r => ~Free(r2)

\* The steps of the push handlers in flight; the cache operations and the
\* send throw or not as `fails` allows.
PushSteps(slots, fails) ==
  \/ \E r \in slots, fail \in fails : PushThrottle(r, fail)
  \/ \E r \in slots, fail \in fails : PushExpire(r, fail)
  \/ \E r \in slots, fail \in fails : PushMoved(r, fail)
  \/ \E r \in slots, fail \in fails : PushCache(r, fail)
  \/ \E r \in slots, fail \in fails : PushPublish(r, ~fail)

GetSteps(slots, fails) ==
  \/ \E r \in slots, fail \in fails : GetCache(r, fail)
  \/ \E r \in slots : GetFind(r)
  \/ \E r \in slots, fail \in fails : GetRepopulate(r, fail)

Writes ==
  \/ \E i \in 1..Len(pending) : WriteSettles(i)
  \/ \E i \in 1..Len(pending) : WriteRejects(i)

\* No handler is between two of its awaits.
Quiet == \A r \in Slots : Free(r)

\* The position of the n-th ping of a vehicle that moves MinMeters or more
\* between any two pings.
Moving(n) == 2 * (n % 2)

\* Spec: one worker; single pushes and reads of one vehicle, two in flight,
\* with client timestamps, failing cache operations, failing sends and
\* failing store writes.
Next ==
  \/ \E r \in Slots, lng \in {0, 2}, ts \in {0, 1} :
       nreq < MaxReq /\ LowestFree(r) /\ StartPush(r, 1, "a", 0, lng, ts)
  \/ \E r \in Slots : nreq < MaxReq /\ LowestFree(r) /\ StartGet(r, 1, "a")
  \/ PushSteps(Slots, BOOLEAN)
  \/ GetSteps(Slots, BOOLEAN)
  \/ Writes
  \/ \E k \in 1..MaxReq, ok \in BOOLEAN : DbWriterBatch(k, ok)

Spec == Init /\ [][Next]_vars

\* SpecThrottle: one worker with a real producer; single pushes, moving or
\* not, one after the other within and across throttle windows, the cache
\* going away and coming back between two pushes, seconds passing.
InitThrottle == Init /\ producer[1] = "kafka"

NextThrottle ==
  \/ \E lng \in {0, 2} :
       nreq < MaxThrottleReq /\ StartPush(1, 1, "a", 0, lng, now)
  \/ PushSteps({1}, {FALSE})
  \/ \E w \in Workers : Quiet /\ RedisError(w)
  \/ \E w \in Workers : Quiet /\ RedisReady(w)
  \/ Quiet /\ SecondPasses

SpecThrottle == InitThrottle /\ [][NextThrottle]_vars

\* SpecOutage: pushes served by worker 1 with the clock held, where worker 1's
\* client may drop and every cache operation may throw.
NextOutage ==
  \/ \E lng \in {0, 2} :
       nreq < MaxThrottleReq /\ StartPush(1, 1, "a", 0, lng, now)
  \/ \E fail \in BOOLEAN : PushThrottle(1, fail)
  \/ \E fail \in BOOLEAN : PushExpire(1, fail)
  \/ \E fail \in BOOLEAN : PushMoved(1, fail)
  \/ \E fail \in BOOLEAN : PushCache(1, fail)
  \/ PushPublish(1, TRUE)
  \/ Quiet /\ RedisError(1)
  \/ Quiet /\ RedisReady(1)

SpecOutage == InitThrottle /\ [][NextOutage]_vars

\* SpecBatch: batch pushes of every shape, one after the other, against every
\* configuration, with the cache pipeline, the send and the bulk writes free
\* to fail.
Elements == [vehicleId : {"a", "b", ""}, lat : {0, 999}, lng : {0}]
Batches == UNION {[1..n -> Elements] : n \in 0..MaxBatch}

NextBatch ==
  \/ \E updates \in Batches :
       nreq < MaxBatchReq /\ StartBatch(1, 1, updates)
  \/ \E lat, lng \in {0, 999} :
       nreq < MaxBatchReq /\ RefusePush(1, 1, "a", lat, lng)
  \/ \E fail \in BOOLEAN : BatchCache(1, fail)
  \/ \E sendOk \in BOOLEAN : BatchPublish(1, sendOk)
  \/ \E insertOk, updateOk \in BOOLEAN : BatchBulk(1, insertOk, updateOk)
  \/ Quiet /\ ProducerDisconnect(1)
  \/ Quiet /\ ProducerConnect(1)

SpecBatch == Init /\ [][NextBatch]_vars

\* SpecWindow: one worker; a vehicle that moves with every ping pushes one
\* ping after the other; the cache and the log are always there.
NextWindow ==
  \/ nreq < MaxWindowReq /\ StartPush(1, 1, "a", 0, Moving(nreq), now)
  \/ PushSteps({1}, {FALSE})
  \/ Tick

SpecWindow == Init /\ [][NextWindow]_vars

\* SpecStationary: one worker and one subscriber of the vehicle's room;
\* single pushes one after the other, the cache always there, the producer
\* disconnecting and reconnecting between pushes, the fallback's writes
\* settling in the order they were started, the db writer, and time passing
\* by seconds and beyond the cache TTL once those writes have settled.
InitStationary == InitWith(FALSE, {"s1"})

NextStationary ==
  \/ \E lng \in {0, 1, 2} :
       nreq < MaxPings /\ StartPush(1, 1, "a", 0, lng, now)
  \/ PushSteps({1}, {FALSE})
  \/ Quiet /\ ProducerDisconnect(1)
  \/ Quiet /\ ProducerConnect(1)
  \/ WriteSettles(1)
  \/ \E k \in 1..MaxPings : DbWriterBatch(k, TRUE)
  \/ Quiet /\ pending = <<>> /\ SecondPasses
  \/ Quiet /\ pending = <<>> /\ TtlPasses

SpecStationary == InitStationary /\ [][NextStationary]_vars

\* SpecFanout: production, two workers; sessions on either worker subscribe
\* and unsubscribe; single pushes with client timestamps on either
\* worker; each worker's fan-out consumer; the group rebalancing.
NextFanout ==
  \/ \E w \in Workers, lng \in {0, 2}, ts \in {0, 1} :
       nreq < MaxReq /\ StartPush(1, w, "a", 0, lng, ts)
  \/ PushSteps({1}, {FALSE})
  \/ \E s \in Sessions : Connect(s, "valid")
  \/ \E s \in Sessions : SubscribeVehicle(s, "a")
  \/ \E s \in Sessions : UnsubscribeVehicle(s, "a")
  \/ \E s \in Sessions : Disconnect(s)
  \/ \E w \in Workers, k \in 1..MaxReq : FanoutBatch(w, k)
  \/ \E w \in Workers : Rebalance(w)

SpecFanout == InitFor(TRUE) /\ [][NextFanout]_vars

\* SpecSocket: one session that connects with any token, subscribes, pushes
\* over the socket and leaves, next to HTTP pushes that fill the cache and,
\* through the db writer or the fallback, the history store.
NextSocket ==
  \/ \E token \in Tokens : Connect("s1", token)
  \/ SubscribeVehicle("s1", "a")
  \/ UnsubscribeVehicle("s1", "a")
  \/ Disconnect("s1")
  \/ \E lng \in {0, 2} : SocketPush("s1", "a", 0, lng)
  \/ nreq < MaxSockReq /\ StartPush(1, 1, "a", 0, 0, now)
  \/ PushSteps({1}, {FALSE})
  \/ WriteSettles(1)
  \/ DbWriterBatch(1, TRUE)
  \/ Quiet /\ nreq = 0 /\ ProducerDisconnect(1)

SpecSocket == Init /\ [][NextSocket]_vars

\* SpecRooms: production, two workers; sessions connect with or without a
\* token, join and leave vehicle:a, report an error, disconnect; each
\* worker's sweeper runs.
NextRooms ==
  \/ \E s \in Sessions, token \in {"none", "valid"} : Connect(s, token)
  \/ \E s \in Sessions : SubscribeVehicle(s, "a")
  \/ \E s \in Sessions : UnsubscribeVehicle(s, "a")
  \/ \E s \in Sessions : Disconnect(s)
  \/ \E s \in Sessions : SocketError(s)
  \/ \E w \in Workers : Sweep(w)

SpecRooms == InitFor(TRUE) /\ [][NextRooms]_vars

\* SpecConsume: production with brokers; moving single pushes are published
\* on either worker while the db writer group and the fan-out group consume
\* and the fan-out group rebalances.  A running consumer with records to
\* fetch is eventually handed a batch.
InitConsume == InitFor(TRUE) /\ producer[1] = "kafka"

NextConsume ==
  \/ \E w \in Workers :
       nreq < MaxConsumeReq /\ StartPush(1, w, "a", 0, Moving(nreq), now)
  \/ PushSteps({1}, {FALSE})
  \/ \E k \in 1..MaxConsumeReq, ok \in BOOLEAN : DbWriterBatch(k, ok)
  \/ \E w \in Workers, k \in 1..MaxConsumeReq : FanoutBatch(w, k)
  \/ \E w \in Workers : Rebalance(w)

SpecConsume ==
  /\ InitConsume /\ [][NextConsume]_vars
  /\ WF_vars(\E k \in 1..MaxConsumeReq, ok \in BOOLEAN : DbWriterBatch(k, ok))
  /\ WF_vars(\E w \in Workers, k \in 1..MaxConsumeReq : FanoutBatch(w, k))

\* SpecKeyed: one worker with a real producer and a session in vehicle:a;
\* moving single pushes of vehicle a and batch pushes of both vehicles are
\* published one tick after the other, and between two requests the db writer
\* is handed what a partition holds for it and the fan-out consumer one
\* record or all of them.
KeyedBatches ==
  {<<[vehicleId |-> "b", lat |-> 0, lng |-> 0],
     [vehicleId |-> "a", lat |-> 0, lng |-> 2]>>}

InitKeyed == InitWith(FALSE, {"s1"}) /\ producer[1] = "kafka"

NextKeyed ==
  \/ /\ nreq < MaxKeyedReq /\ now = nreq
     /\ StartPush(1, 1, "a", 0, Moving(nreq), now)
  \/ \E updates \in KeyedBatches :
       nreq < MaxKeyedReq /\ now = nreq /\ StartBatch(1, 1, updates)
  \/ PushSteps({1}, {FALSE})
  \/ BatchCache(1, FALSE)
  \/ BatchPublish(1, TRUE)
  \/ Quiet /\ now < nreq /\ Tick
  \/ \E p \in Partitions :
       Quiet /\ DbWriterPartition(p, Len(PartLog(p)) - dbPart[p], TRUE)
  \/ \E p \in Partitions : \E k \in {1, Len(PartLog(p)) - fanPart[p]} :
       Quiet /\ FanoutPartition(1, p, k)

SpecKeyed == InitKeyed /\ [][NextKeyed]_vars

\* SpecSos: one worker; triggers of one user from two addresses, two in
\* flight.
NextSos ==
  \/ \E r \in Slots, ip \in Ips :
       nreq < MaxSosReq /\ LowestFree(r) /\ StartSos(r, 1, "u1", ip)
  \/ \E r \in Slots : SosAuth(r)
  \/ \E r \in Slots : SosWrite(r)

SpecSos == Init /\ [][NextSos]_vars

\* ------------------------------------------- authController.refreshToken
\* A refresh token is an opaque random string; the model numbers them in the
\* order of their creation, 0 standing for a request without one.  A document
\* removed by deleteOne keeps its place in the sequence, marked deleted.
\* The request reaches the handler, which answers 400 without a token and
\* otherwise runs to its first await.
StartRefresh(r, w, token) ==
  /\ Free(r) /\ w \in alive
  /\ slot' = [slot EXCEPT ![r] =
       IF token = 0
       THEN [Idle EXCEPT !.kind = "refresh", !.pc = "done", !.w = w,
                         !.status = 400, !.error = "Refresh token required"]
       ELSE [Idle EXCEPT !.kind = "refresh", !.pc = "findOne", !.w = w,
                         !.refreshToken = token]]
  /\ nreq' = nreq + 1
  /\ UNCHANGED <<cfgVars, connVars, now, storeVars, logVars, dbVars, sockVars,
                 ghostVars, extVars>>

\* RefreshToken.findOne({ token, isValid: true }), then the expiry test.
RefreshFind(r) ==
  /\ Handler(r, "refresh", "findOne")
  /\ LET q == slot[r]
         found == {i \in 1..Len(refreshTokens) :
                     /\ ~refreshTokens[i].deleted
                     /\ refreshTokens[i].token = q.refreshToken
                     /\ refreshTokens[i].isValid}
     IN
     IF found = {}
     THEN slot' = [slot EXCEPT ![r].pc = "done", ![r].status = 401,
                     ![r].error = "Invalid or expired refresh token"]
     ELSE \E i \in found :
            slot' = [slot EXCEPT ![r].stored = i,
                       ![r].pc = IF refreshTokens[i].expiresAt < now
                                 THEN "deleteOne" ELSE "updateOne"]
  /\ UNCHANGED <<cfgVars, connVars, now, storeVars, logVars, dbVars, sockVars,
                 nreq, ghostVars, extVars>>

\* RefreshToken.deleteOne({ _id: stored._id }) of an expired token, and 401.
RefreshDelete(r) ==
  /\ Handler(r, "refresh", "deleteOne")
  /\ refreshTokens' = [refreshTokens EXCEPT ![slot[r].stored].deleted = TRUE]
  /\ slot' = [slot EXCEPT ![r].pc = "done", ![r].status = 401,
                ![r].error = "Refresh token expired"]
  /\ UNCHANGED <<cfgVars, connVars, now, storeVars, logVars, dbVars, sockVars,
                 nreq, ghostVars, swept, partVars, lastSet, sosVars>>

\* RefreshToken.updateOne({ _id: stored._id }, { isValid: false })
RefreshUpdate(r) ==
  /\ Handler(r, "refresh", "updateOne")
  /\ refreshTokens' = [refreshTokens EXCEPT ![slot[r].stored].isValid = FALSE]
  /\ slot' = [slot EXCEPT ![r].pc = "create"]
  /\ UNCHANGED <<cfgVars, connVars, now, storeVars, logVars, dbVars, sockVars,
                 nreq, ghostVars, swept, partVars, lastSet, sosVars>>

\* generateRefreshToken, RefreshToken.create of the new token, and the answer.
RefreshCreate(r) ==
  /\ Handler(r, "refresh", "create")
  /\ LET newRefreshToken == Len(refreshTokens) + 1 IN
     /\ refreshTokens' = Append(refreshTokens,
          [token |-> newRefreshToken, isValid |-> TRUE,
           expiresAt |-> now + RefreshTtl, deleted |-> FALSE])
     /\ slot' = [slot EXCEPT ![r].pc = "done", ![r].status = 200,
                   ![r].newRefreshToken = newRefreshToken]
  /\ UNCHANGED <<cfgVars, connVars, now, storeVars, logVars, dbVars, sockVars,
                 nreq, ghostVars, swept, partVars, lastSet, sosVars>>

\* SpecRefresh: refresh requests served by worker 1, up to two in flight,
\* presenting no token, one of the two stored at the start (the second of
\* them expired), or the first token a refresh has issued.
NextRefresh ==
  \/ \E r \in Slots, token \in 0..3 :
       nreq < MaxRefreshReq /\ LowestFree(r) /\ StartRefresh(r, 1, token)
  \/ \E r \in Slots : RefreshFind(r)
  \/ \E r \in Slots : RefreshDelete(r)
  \/ \E r \in Slots : RefreshUpdate(r)
  \/ \E r \in Slots : RefreshCreate(r)

SpecRefresh == Init /\ [][NextRefresh]_vars

\* SpecRead: one worker; single pushes with client timestamps and reads of
\* one vehicle, one after the other; the cache and the producer always
\* there, the db writer, and the cache TTL passing between requests.
NextRead ==
  \/ \E lng \in {0, 2}, ts \in {0, 1} :
       nreq < MaxReadReq /\ StartPush(1, 1, "a", 0, lng, ts)
  \/ nreq < MaxReadReq /\ StartGet(1, 1, "a")
  \/ PushSteps({1}, {FALSE})
  \/ GetSteps({1}, {FALSE})
  \/ \E k \in 1..MaxReadReq : DbWriterBatch(k, TRUE)
  \/ Quiet /\ TtlPasses

SpecRead == Init /\ [][NextRead]_vars

\* SpecExpiry: one worker; single pushes, batch pushes and reads of one
\* vehicle, one after the other, the producer always there and no consumer
\* (a read that misses the cache finds no row), and the clock moving between
\* requests by a tick or by one tick less than the cache TTL.
NextExpiry ==
  \/ nreq < MaxReadReq /\ StartPush(1, 1, "a", 0, Moving(nreq), now)
  \/ nreq < MaxReadReq
       /\ StartBatch(1, 1, <<[vehicleId |-> "a", lat |-> 0, lng |-> 0]>>)
  \/ nreq < MaxReadReq /\ StartGet(1, 1, "a")
  \/ PushSteps({1}, {FALSE})
  \/ GetCache(1, FALSE)
  \/ GetFind(1)
  \/ BatchCache(1, FALSE)
  \/ BatchPublish(1, TRUE)
  \/ Quiet /\ Tick
  \/ Quiet /\ now \div CacheTtl < MaxJumps /\ Advance(CacheTtl - 1)

SpecExpiry == InitThrottle /\ [][NextExpiry]_vars

\* SpecNearby: one worker with the producer and the db writer, which stores
\* every record before the next request or clock step; single pushes of
\* vehicle a, alternating between two places, and of vehicle b at one place,
\* and nearby queries from two places with two radii, one after the other;
\* the clock moves between requests by a second or by the 60 s window.
NextNearby ==
  \/ /\ nreq < MaxNearbyReq /\ dbOffset = Len(log)
     /\ StartPush(1, 1, "a", 0, 100 * (nreq % 2), now)
  \/ /\ nreq < MaxNearbyReq /\ dbOffset = Len(log)
     /\ StartPush(1, 1, "b", 0, 0, now)
  \/ \E given \in BOOLEAN, lng \in {-1000, -100}, radius \in {1, 10} :
       /\ nreq < MaxNearbyReq /\ dbOffset = Len(log)
       /\ StartNearby(1, 1, given, 0, lng, radius)
  \/ PushSteps({1}, {FALSE})
  \/ NearbyAggregate(1)
  \/ Quiet /\ DbWriterBatch(Len(log) - dbOffset, TRUE)
  \/ Quiet /\ dbOffset = Len(log) /\ SecondPasses
  \/ /\ Quiet /\ dbOffset = Len(log) /\ now \div NearbyWindow < MaxJumps
     /\ Advance(NearbyWindow)

SpecNearby == InitThrottle /\ [][NextNearby]_vars

\* SpecCoalesce: one worker with a real producer and a session in nearby-all
\* and vehicle:a that may join vehicle:b; pushes of either vehicle, each 10 m
\* on from the last and one tick after it, are published to one partition,
\* and between two requests the fan-out consumer is handed any number of the
\* records waiting for it.
NextCoalesce ==
  \/ \E v \in Vehicles :
       /\ nreq < MaxCoalesceReq /\ now = nreq
       /\ StartPush(1, 1, v, 0, 2 * nreq, now)
  \/ PushSteps({1}, {FALSE})
  \/ Quiet /\ now < nreq /\ Tick
  \/ SubscribeVehicle("s1", "b")
  \/ \E k \in 1..MaxCoalesceReq : Quiet /\ FanoutBatch(1, k)

SpecCoalesce == InitKeyed /\ [][NextCoalesce]_vars

\* SpecBatchRooms: batch pushes served by worker 1 whose publish may fail, the
\* fan-out worker, and a session subscribed to vehicle a's room from the start.
NextBatchRooms ==
  \/ \E updates \in Batches :
       nreq < MaxBatchReq /\ StartBatch(1, 1, updates)
  \/ BatchCache(1, FALSE)
  \/ \E sendOk \in BOOLEAN : BatchPublish(1, sendOk)
  \/ BatchBulk(1, TRUE, TRUE)
  \/ \E k \in 1..MaxBatch : Quiet /\ FanoutBatch(1, k)

SpecBatchRooms == InitKeyed /\ [][NextBatchRooms]_vars

\* SpecWriter: one worker with a real producer; moving single pushes of
\* either vehicle, one after the other and a tick apart, and a record that
\* is not JSON are published; the db writer is handed any number of the
\* records waiting for it, and either write may fail, the insert after any
\* part of it.
NextWriter ==
  \/ \E v \in Vehicles :
       /\ nreq < MaxWriterReq /\ now = nreq
       /\ StartPush(1, 1, v, 0, 2 * nreq, now)
  \/ PushSteps({1}, {FALSE})
  \/ Quiet /\ now < nreq /\ Tick
  \/ Quiet /\ ForeignPublish
  \/ \E k \in 1..(MaxWriterReq + MaxForeign) :
       \E ins \in SUBSET (1..k), updateOk \in BOOLEAN :
         Quiet /\ DbWriterRun(k, ins, updateOk)

SpecWriter == InitThrottle /\ [][NextWriter]_vars

\* The persistence worker is stopped (crash, or its partition is taken away on
\* a rebalance) after insertMany has written the batch and before the offsets
\* of the batch are committed: the rows are in the history and the consumer
\* group's offset is where it was, so the batch is delivered again.
DbWriterStopped(k) ==
  /\ env.KAFKA_BROKERS
  /\ k \in 1..(Len(log) - dbOffset)
  /\ Len(history) < Len(log) + MaxRedeliver
  /\ history' = history \o SelectSeq(Fetch(dbOffset, k), Parses)
  /\ history' # history
  /\ UNCHANGED <<cfgVars, connVars, now, storeVars, logVars, desc, pending,
                 sockVars, slot, nreq, ghostVars, extVars>>

\* SpecRedeliver: SpecWriter with a persistence worker that may be stopped
\* between its insert and the commit of its offsets.
NextRedeliver ==
  \/ NextWriter
  \/ \E k \in 1..(MaxWriterReq + MaxForeign) : Quiet /\ DbWriterStopped(k)

SpecRedeliver == InitThrottle /\ [][NextRedeliver]_vars

\* ------------------------------------------------------------ claims
DonePush(r) == slot[r].kind = "push" /\ slot[r].pc = "done"
Forwarded(r) == DonePush(r) /\ slot[r].moved
DocOf(r) == Doc(slot[r].v, slot[r].lat, slot[r].lng, slot[r].ts)
InHistory(d) == \E i \in 1..Len(history) : history[i] = d

\* C1: whenever the event log is unavailable to a single push (no broker
\* configured, producer not connected at boot, producer disconnected, send
\* failed), publishLocation returned false and the push took the
\* direct-write path.
C1_LogDownFallsBack ==
  \A r \in Slots :
    (Forwarded(r) /\ slot[r].logDown) =>
      (~slot[r].kafkaOk /\ "history" \in slot[r].effects)

\* C2: every record a single push accepted past the gate is, once the
\* response is sent, in the hot cache and either published to the log or,
\* the log being unavailable, already in the history store.
C2_AcceptedCachedAndLogged ==
  \A r \in Slots :
    Forwarded(r) =>
      /\ slot[r].cached
      /\ \/ "log" \in slot[r].effects
         \/ slot[r].logDown /\ InHistory(DocOf(r))

\* C3: the timestamp of a vehicle's cache entry never decreases: no write
\* replaces an entry by one with an older timestamp.
C3_CacheTimestampMonotone ==
  [][\A st \in Workers, v \in Vehicles :
       (cache[st][v].present /\ cache'[st][v].present) =>
         cache'[st][v].ts >= cache[st][v].ts]_vars

\* C4: a single push is answered 429 with retryAfterMs 1000 exactly when the
\* count its throttle increment returned exceeds 5; the rejection comes
\* before the movement filter, and the rejected push has written nothing to
\* the cache, the log, the history store, the descriptor or a room.
C4_RejectStep(r) ==
  /\ slot[r].kind = "push" /\ slot[r].pc \in {"throttle", "expire"}
  /\ slot'[r].pc = "done"
C7_NoMovementStep(r) ==
  /\ slot[r].kind = "push" /\ slot[r].pc = "moved"
  /\ slot'[r].reason = "no_movement"
C7_TwoPushesHandled(r) ==
  /\ DonePush(r) /\ slot[r].reason = "no_movement"
  /\ nreq = 2 /\ now = TicksPerSec
  /\ firstPos[slot[r].v].lng = slot[r].lng
  /\ pending = <<>> /\ dbOffset = Len(log)
C7_NoMovementFrame ==
  /\ [](\A r \in Slots : (DonePush(r) /\ slot[r].reason = "no_movement") =>
          /\ slot[r].status = 200
          /\ slot[r].nextPingMs = 5000
          /\ slot[r].effects \subseteq {"throttle"}
          /\ ~slot[r].moved)
  /\ [][\A r \in Slots : C7_NoMovementStep(r) =>
          UNCHANGED <<cache, log, dbOffset, fanOffset, history, pending, desc,
                      inbox, rooms>>]_vars
  /\ [](\A r \in Slots : C7_TwoPushesHandled(r) =>
          Cardinality(RowsOf(slot[r].v)) = 1)

\* C8: when the publish failed and the direct history write failed too, the
\* push was answered 500.
C8_LostWriteAnswered500 ==
  \A r \in Slots :
    (Forwarded(r) /\ ~slot[r].kafkaOk /\ DocOf(r) \in lost) =>
      slot[r].status = 500

\* C9: a record the websocket-fanout group has consumed has been observed by
\* the fan-out consumer of every worker.
C9_EveryWorkerObserves ==
  \A i \in 1..fanOffset : \A w \in alive : i \in observed[w]

\* C10: the first `location` message a subscriber gets after joining
\* vehicle:{id} carries a timestamp at least that of the cache entry and of
\* the newest history record that existed when it joined.
FirstLocation(s) ==
  LET locs == {i \in (joinAt[s] + 1)..Len(inbox[s]) : inbox[s][i].event = "location"}
  IN  IF locs = {} THEN 0
      ELSE CHOOSE i \in locs : \A j \in locs : i <= j
C10_FirstMessageFresh ==
  \A s \in Sessions :
    (joinAt[s] >= 0 /\ FirstLocation(s) > 0) =>
      inbox[s][FirstLocation(s)].ts >= joinMark[s]

\* C11: the `location` messages a member of room vehicle:{id} receives for
\* one vehicle carry non-decreasing timestamps: a record is never emitted
\* after a record of the same vehicle with a greater timestamp.
C11_EmittedInTimestampOrder ==
  \A s \in Sessions : \A i, j \in 1..Len(inbox[s]) :
    (/\ i < j
     /\ inbox[s][i].event = "location" /\ inbox[s][j].event = "location"
     /\ inbox[s][i].vehicleId = inbox[s][j].vehicleId) =>
      inbox[s][i].ts <= inbox[s][j].ts

\* C12: once a forwarded single push of vehicle V with timestamp T has been
\* answered, every get_current(V) started later, with the cache available
\* and no entry of V expired, answers from the cache a record with
\* timestamp >= T.
DoneGet(r) == slot[r].kind = "get" /\ slot[r].pc = "done"
C12_ReadsNoOlderThanAccepted ==
  \A r \in Slots :
    (/\ DoneGet(r) /\ slot[r].floor >= 0
     /\ isReady[slot[r].w] /\ slot[r].failed = {}
     /\ ~lapsed[slot[r].v]) =>
      (/\ slot[r].status = 200
       /\ slot[r].source = "cache"
       /\ slot[r].ts >= slot[r].floor)

\* C13: get_current(V) answers the cache entry tagged `cache` when there is
\* one; on a miss it answers the newest history record under the tag given
\* and writes it to the cache with the 300 s TTL, and an entry stays in the
\* cache until its TTL has passed, so the next get_current(V) within 300 s
\* is tagged `cache`; with neither it answers 404.
C13_GetStep(r, tag) ==
  LET q == slot[r]
      e == cache[StoreOf(q.w)][q.v]
  IN  /\ q.pc = "gcache" =>
           IF e.present
           THEN /\ slot'[r].pc = "done" /\ slot'[r].status = 200
                /\ slot'[r].source = "cache"
                /\ slot'[r].ts = e.ts /\ slot'[r].lng = e.lng
           ELSE slot'[r].pc = "find"
      /\ q.pc = "find" =>
           IF RowsOf(q.v) = {}
           THEN slot'[r].pc = "done" /\ slot'[r].status = 404
           ELSE slot'[r].pc = "repop" /\ slot'[r].ts = NewestTs(q.v)
      /\ q.pc = "repop" =>
           /\ slot'[r].pc = "done" /\ slot'[r].status = 200
           /\ slot'[r].source = tag /\ slot'[r].ts = q.ts
           /\ cache'[StoreOf(q.w)][q.v].present
           /\ cache'[StoreOf(q.w)][q.v].ts = q.ts
           /\ cache'[StoreOf(q.w)][q.v].exp = now + 300 * TicksPerSec
C13_EntriesLive ==
  \A st \in Workers, v \in Vehicles :
    cache[st][v].present => now <= cache[st][v].exp

\* C13 as stated: the record found in the history store is tagged `history`.
C13_TaggedHistory ==
  /\ [][\A r \in Slots : (slot[r].kind = "get" /\ slot'[r] # slot[r])
                           => C13_GetStep(r, "history")]_vars
  /\ []C13_EntriesLive

\* C13 as amended: the record found in the history store is tagged `db`.
C13_TaggedDb ==
  /\ [][\A r \in Slots : (slot[r].kind = "get" /\ slot'[r] # slot[r])
                           => C13_GetStep(r, "db")]_vars
  /\ []C13_EntriesLive

\* C13 witness: after the entry of the only push has expired, a first read
\* was answered from the history store and the next one from the cache.
C13_SecondReadFromCache ==
  \E r \in Slots :
    /\ DoneGet(r) /\ slot[r].source = "cache"
    /\ lapsed[slot[r].v] /\ fwd[slot[r].v] = 1 /\ nreq = 3
    /\ slot[r].ts = NewestTs(slot[r].v)

\* C14: a single push whose throttle increment could not be made is not
\* answered 429; one whose cached position could not be read is not answered
\* no_movement; one whose cache write failed still goes on; and a push for
\* which the cache was not there at all goes on to the publish and is
\* answered accepted with nextPingMs 5000.
C14_FailOpen ==
  \A r \in Slots : DonePush(r) =>
    /\ "incr" \in slot[r].failed => slot[r].status # 429
    /\ "get" \in slot[r].failed =>
         (slot[r].moved /\ slot[r].reason # "no_movement")
    /\ "set" \in slot[r].failed =>
         (slot[r].status = 200 /\ slot[r].reason = "")
    /\ {"incr", "get"} \subseteq slot[r].failed =>
         /\ slot[r].status = 200 /\ slot[r].reason = ""
         /\ slot[r].nextPingMs = 5000
         /\ slot[r].kafkaOk \/ "history" \in slot[r].effects

\* C14 witness: with the counter at its limit and the vehicle's own position
\* in the store, a push made while the cache is away is answered accepted.
C14_PassesDuringOutage ==
  \E r \in Slots :
    /\ DonePush(r) /\ slot[r].failed = {"incr", "get", "set"}
    /\ slot[r].status = 200 /\ slot[r].reason = ""
    /\ throttle[StoreOf(slot[r].w)][slot[r].v].n >= 5
    /\ cache[StoreOf(slot[r].w)][slot[r].v].present
    /\ cache[StoreOf(slot[r].w)][slot[r].v].lng = slot[r].lng

\* A batch push that has been answered, and the elements of it that have an
\* id and an in-range position.
DoneBatch(r) == slot[r].kind = "batch" /\ slot[r].pc = "done"
GoodAt(r) ==
  {i \in 1..Len(slot[r].updates) :
     /\ slot[r].updates[i].vehicleId # ""
     /\ slot[r].updates[i].lat \in -90..90
     /\ slot[r].updates[i].lng \in -180..180}
BadAt(r) == (1..Len(slot[r].updates)) \ GoodAt(r)

\* C15: every answered batch push of 1 to 1000 elements carries the counts
\* processed and rejected, and they add up to the number of elements, also
\* when no element is valid.
C15_CountsAddUp ==
  \A r \in Slots :
    (DoneBatch(r) /\ Len(slot[r].updates) \in 1..1000) =>
      /\ slot[r].counted
      /\ slot[r].processed + slot[r].rejected = Len(slot[r].updates)

\* C16: a batch push with valid and invalid elements is answered 200, the
\* valid ones counted as processed, the invalid ones as rejected, with at
\* most the first 10 rejected ids listed.
C16_MixedBatchAnswered200 ==
  \A r \in Slots :
    (DoneBatch(r) /\ GoodAt(r) # {} /\ BadAt(r) # {}) =>
      /\ slot[r].status = 200
      /\ slot[r].processed = Cardinality(GoodAt(r))
      /\ slot[r].rejected = Cardinality(BadAt(r))
      /\ Len(slot[r].rejectedIds) = Cardinality(BadAt(r) \cap 1..10)

\* C17: a single push to which the event log was unavailable has, when it is
\* answered, its record in the history store, the vehicle's descriptor
\* active, and has emitted to the vehicle's room and to nearby-all.
C17_DirectWriteWithinRequest ==
  \A r \in Slots :
    (Forwarded(r) /\ slot[r].logDown) =>
      /\ InHistory(DocOf(r))
      /\ desc[slot[r].v].status = "active"
      /\ "room" \in slot[r].effects

\* The step in which session s sends push:location.
SocketPushStep(s) == conn'[s].pushes = conn[s].pushes + 1

\* C18: a push:location of an authenticated session for a vehicle that is
\* under its throttle limit and has no cached position is written to the
\* cache when the cache is available, and appended to the log when a
\* connected producer is there.
C18_SocketPushThroughPipeline ==
  [][\A s \in Sessions :
       (/\ SocketPushStep(s) /\ conn[s].userId
        /\ throttle[StoreOf(SessWorker[s])]["a"].n < 5
        /\ ~cache[StoreOf(SessWorker[s])]["a"].present) =>
         /\ isReady[SessWorker[s]] => cache'[StoreOf(SessWorker[s])]["a"].present
         /\ Appended(SessWorker[s], TRUE) => Len(log') = Len(log) + 1]_vars

\* C19: a connected session has a user id exactly when its handshake token
\* verified, and a push:location of a session without one leaves the cache,
\* the log, the history store, the pending writes, the descriptors and every
\* session's messages as they were.
C19_AnonymousPushChangesNothing ==
  /\ [](\A s \in Sessions :
          conn[s].connected => (conn[s].userId <=> conn[s].token = "valid"))
  /\ [][\A s \in Sessions :
          (SocketPushStep(s) /\ ~conn[s].userId) =>
            UNCHANGED <<cache, throttle, log, history, desc, pending, inbox,
                        rooms>>]_vars

\* C19 witness: a session admitted with a token that does not verify has no
\* user id and has sent push:location while the cache holds an entry.
C19_InvalidTokenPushed ==
  \E s \in Sessions :
    /\ conn[s].connected /\ conn[s].token = "invalid" /\ ~conn[s].userId
    /\ conn[s].pushes > 0
    /\ \E st \in Workers : cache[st]["a"].present

\* C20: in the step in which a session joins vehicle:{id} it is sent one
\* `location` message: the cache entry when there is one, else the newest
\* history record when there is one, else nothing.
C20_SnapshotOnSubscribe ==
  [][\A s \in Sessions :
       (VehicleRoom("a") \in rooms'[s] /\ VehicleRoom("a") \notin rooms[s]) =>
         LET e == cache[StoreOf(SessWorker[s])]["a"]
             hit == isReady[SessWorker[s]] /\ e.present /\ ~Expired(e, now)
         IN  inbox'[s] =
               IF hit THEN Append(inbox[s], Msg("location", "a", e.ts))
               ELSE IF RowsOf("a") # {}
               THEN Append(inbox[s], Msg("location", "a", NewestTs("a")))
               ELSE inbox[s]]_vars

\* The messages session s receives in a step, and those of them that are
\* `location` messages of vehicle "a" (emitted to vehicle:a only).
NewMsgs(s) == SubSeq(inbox'[s], Len(inbox[s]) + 1, Len(inbox'[s]))
IsLocA(m) == m.event = "location" /\ m.vehicleId = "a"

\* C21: in every step that is not a join or a leave, the `location` messages
\* of vehicle:a go to exactly the sessions that are in the room: a session
\* outside the room (never joined, unsubscribed, disconnected) gets none, and
\* all sessions in the room get the same ones.
C21_DeliveredToMembers ==
  [][rooms' = rooms =>
       \A s \in Sessions :
         /\ VehicleRoom("a") \notin rooms[s] =>
              SelectSeq(NewMsgs(s), IsLocA) = <<>>
         /\ \A s2 \in Sessions :
              (VehicleRoom("a") \in rooms[s] /\ VehicleRoom("a") \in rooms[s2]) =>
                SelectSeq(NewMsgs(s2), IsLocA) = SelectSeq(NewMsgs(s), IsLocA)]_vars

\* C22: every connected session is in nearby-all, a session that is not
\* connected is in no room, and a run of the sweeper changes no session's
\* rooms.
C22_RoomsKept ==
  /\ [](\A s \in Sessions : conn[s].connected => NearbyAll \in rooms[s])
  /\ [](\A s \in Sessions : ~conn[s].connected => rooms[s] = {})
  /\ [][swept' # swept => rooms' = rooms]_vars

\* C22 witness: the sweeper has run on a worker on which one session is
\* alone in vehicle:a, while the other session, on the other worker, has left.
C22_SweptAroundMember ==
  \E s, s2 \in Sessions :
    /\ SessWorker[s] # SessWorker[s2]
    /\ swept[SessWorker[s]] > 0 /\ swept[SessWorker[s2]] > 0
    /\ conn[s].connected /\ rooms[s] = {NearbyAll, VehicleRoom("a")}
    /\ ~conn[s2].connected /\ rooms[s2] = {}

C24_VehicleOrderKept ==
  /\ \A i, j \in 1..Len(log) :
       log[i].vehicleId = log[j].vehicleId =>
         PartitionOf(KeyOf(log[i])) = PartitionOf(KeyOf(log[j]))
  /\ \A i, j \in 1..Len(history) :
       (i < j /\ history[i].vehicleId = history[j].vehicleId) =>
         history[i].ts <= history[j].ts
  /\ \A s \in Sessions : \A i, j \in 1..Len(inbox[s]) :
       (/\ i < j
        /\ inbox[s][i].event = "location" /\ inbox[s][j].event = "location"
        /\ inbox[s][i].vehicleId = inbox[s][j].vehicleId) =>
         inbox[s][i].ts <= inbox[s][j].ts

\* C24 witness: two records of vehicle a published at different times are
\* stored in that order, after a record of vehicle b that was published
\* later than the first of them, and both groups have consumed a's partition.
C24_OrderedAcrossPartitions ==
  \E h, i, j \in 1..Len(history) :
    /\ h < i /\ i < j
    /\ history[h].vehicleId = "b"
    /\ history[i].vehicleId = "a" /\ history[j].vehicleId = "a"
    /\ history[i].ts < history[h].ts /\ history[i].ts < history[j].ts
    /\ fanPart[PartitionOf("a")] >= 2

\* C25: a user has at most one SOS event, the credit is never below 0, and
\* a trigger that the limiter let through and that found the credit spent is
\* answered 403 SOS_CREDIT_EXHAUSTED.
C25_OneSosPerCredit ==
  /\ \A u \in Users :
       /\ Cardinality({i \in 1..Len(sosEvents) : sosEvents[i] = u}) <= 1
       /\ sosCredit[u] >= 0
  /\ \A r \in Slots :
       (slot[r].kind = "sos" /\ slot[r].pc = "done" /\ slot[r].status # 429
        /\ slot[r].credit <= 0) =>
         (slot[r].status = 403 /\ slot[r].code = "SOS_CREDIT_EXHAUSTED")

\* C26: a single or batch push whose body fails validation is answered 400
\* "Validation failed" with every offending field listed, and the step that
\* answers it leaves the throttle counters, the cache, the log, the history,
\* the descriptors and every session's inbox as they were.
Refused(q) == q.pc = "done" /\ q.error = "Validation failed"
C27_GoneAt300 ==
  \A st \in Workers, v \in Vehicles :
    lastSet[st][v] >= 0 =>
      (cache[st][v].present <=> now < lastSet[st][v] + CacheTtl)

\* C27 as amended: the entry is there while less than 300 s have passed
\* since the last write to it and gone once more than 300 s have passed, and
\* a read is answered from the cache no later than 300 s after that write.
C27_GoneAfter300 ==
  /\ [](\A st \in Workers, v \in Vehicles :
          lastSet[st][v] >= 0 =>
            /\ now < lastSet[st][v] + CacheTtl => cache[st][v].present
            /\ now > lastSet[st][v] + CacheTtl => ~cache[st][v].present)
  /\ [][\A r \in Slots :
          (slot[r].pc = "gcache" /\ slot'[r].pc = "done"
           /\ slot'[r].source = "cache") =>
            /\ lastSet[StoreOf(slot[r].w)][slot[r].v] >= 0
            /\ now <= lastSet[StoreOf(slot[r].w)][slot[r].v] + CacheTtl]_vars

\* C27 witness: 300 s after the first push of the vehicle and less than
\* 300 s after its second, a read is answered from the cache.
C27_RewrittenEntryRead ==
  \E r \in Slots :
    /\ DoneGet(r) /\ slot[r].source = "cache"
    /\ now = CacheTtl
    /\ lastSet[StoreOf(slot[r].w)][slot[r].v] > 0
    /\ \E i \in 1..Len(log) : log[i].ts = 0

\* C28: the step in which a socket reports an error closes that session and
\* takes it out of every room, and leaves the rooms and the inboxes of all
\* other sessions as they were.
C28_ErrorClosesSession ==
  [][\A s \in Sessions :
       conn'[s].errors > conn[s].errors =>
         /\ ~conn'[s].connected
         /\ rooms'[s] = {}
         /\ \A o \in Sessions \ {s} :
              rooms'[o] = rooms[o] /\ inbox'[o] = inbox[o]]_vars

\* C29: the records a nearby query is answered with are rows of the history,
\* at most one per vehicle and that its newest row, no older than 60 s; each
\* lies within min(radius, 5) km of the query's point on the plane; they come
\* in ascending order of distance and are at most 100; and every vehicle
\* whose newest row (each of them, when several rows share the newest
\* timestamp) qualifies is among them.
NearbyD2(d, q) ==
  ((d.lat - q.lat) * (d.lat - q.lat) + (d.lng - q.lng) * (d.lng - q.lng))
  * UnitMetres * UnitMetres
NearbyCap2(q) ==
  IF q.radius <= 5 THEN q.radius * q.radius * 1000000 ELSE 25000000
C29_NearbyAnswer ==
  [][\A r \in Slots :
       (slot[r].kind = "nearby" /\ slot[r].pc = "aggregate"
        /\ slot'[r].pc = "done") =>
         LET q == slot'[r]
             d == q.data
             Qualifies(v) ==
               /\ RowsOf(v) # {}
               /\ NewestTs(v) >= now - 60 * TicksPerSec
               /\ \A i \in RowsOf(v) :
                    history[i].ts = NewestTs(v) =>
                      NearbyD2(history[i], q) <= NearbyCap2(q)
         IN  /\ q.status = 200 /\ q.count = Len(d) /\ Len(d) <= 100
             /\ \A i \in 1..Len(d) :
                  /\ InHistory(d[i])
                  /\ d[i].ts = NewestTs(d[i].vehicleId)
                  /\ d[i].ts >= now - 60 * TicksPerSec
                  /\ NearbyD2(d[i], q) <= NearbyCap2(q)
             /\ \A i, j \in 1..Len(d) : i < j =>
                  /\ d[i].vehicleId # d[j].vehicleId
                  /\ NearbyD2(d[i], q) <= NearbyD2(d[j], q)
             /\ \A v \in Vehicles :
                  Qualifies(v) => \E i \in 1..Len(d) : d[i].vehicleId = v]_vars

\* C29 witness: a query with radius 1 is answered with vehicle b and then
\* vehicle a, farther away, while an older row of a lies nearer to the
\* query's point than a's newest.
C29_TwoSortedNewest ==
  \E r \in Slots :
    /\ slot[r].kind = "nearby" /\ slot[r].pc = "done" /\ slot[r].radius = 1
    /\ Len(slot[r].data) = 2
    /\ slot[r].data[1].vehicleId = "b" /\ slot[r].data[2].vehicleId = "a"
    /\ NearbyD2(slot[r].data[1], slot[r]) < NearbyD2(slot[r].data[2], slot[r])
    /\ \E i \in RowsOf("a") :
         /\ history[i].ts >= now - 60 * TicksPerSec
         /\ NearbyD2(history[i], slot[r]) < NearbyD2(slot[r].data[2], slot[r])

AtPositions(b, keep) ==
  [i \in 1..Cardinality(keep) |->
     b[CHOOSE j \in keep : Cardinality({x \in keep : x <= j}) = i]]
C31_OffsetPastBatch ==
  [][/\ dbOffset' >= dbOffset
     /\ (history' # history \/ desc' # desc) =>
          /\ dbOffset' > dbOffset
          /\ LET b == SubSeq(log, dbOffset + 1, dbOffset') IN
             \E keep \in SUBSET {i \in 1..Len(b) : b[i] # NotJson} :
               history' = history \o AtPositions(b, keep)]_vars

\* C31 witness: the offset is past all three records on the topic, one of
\* them not JSON and one a record whose insert failed and is in no row.
C31_PastBadRecords ==
  /\ Len(log) = 3 /\ dbOffset = 3
  /\ \E i \in 1..3 : log[i] = NotJson
  /\ \E i \in 1..3 : log[i] # NotJson /\ ~InHistory(log[i])
  /\ Len(history) = 1

\* C32: in a db writer step whose insert succeeded only in part (some of the
\* batch's parsed records became rows, not all), the descriptor of every
\* vehicle with a parsed record in the batch is active with last_seen now.
C32_DescriptorsSetOnPartialInsert ==
  [][dbOffset' > dbOffset =>
       LET b == SubSeq(log, dbOffset + 1, dbOffset')
           parsed == {i \in 1..Len(b) : b[i] # NotJson}
           added == Len(history') - Len(history)
       IN  (added > 0 /\ added < Cardinality(parsed)) =>
             \A i \in parsed :
               desc'[b[i].vehicleId] = [status |-> "active", lastSeen |-> now]]_vars

\* C33: once the listener accepts requests, the clients of the worker that
\* serves a handler have been initialized: in every step in which a session
\* joins a vehicle room or sends push:location, config/redis holds a client
\* and the worker holds a producer.
C33_ClientsInitialized ==
  [][\A s \in Sessions :
       (\/ SocketPushStep(s)
        \/ \E v \in Vehicles :
             VehicleRoom(v) \in rooms'[s] /\ VehicleRoom(v) \notin rooms[s]) =>
         /\ cfgRedis[SessWorker[s]] # "null"
         /\ producer[SessWorker[s]] \in {"kafka", "noop"}]_vars

\* The count an increment returns: one more than the counter holds, and 1 when
\* there is no counter or its window has elapsed.
CountsInWindow ==
  \A r \in Slots :
    (slot[r].pc = "throttle" /\ slot'[r].pc # "throttle"
     /\ "incr" \notin slot'[r].failed) =>
      LET c == throttle[StoreOf(slot[r].w)][slot[r].v]
      IN slot'[r].count = IF c.n = 0 \/ (c.hasExp /\ now >= c.exp)
                          THEN 1 ELSE c.n + 1

C35_CountersExpire ==
  \A st \in Workers, v \in Vehicles :
    throttle[st][v].n >= 1 =>
      \/ throttle[st][v].hasExp
      \/ \E r \in Slots : /\ slot[r].kind = "push" /\ slot[r].pc = "expire"
                          /\ StoreOf(slot[r].w) = st /\ slot[r].v = v

\* C36: a record of the log that the persistence worker processes twice
\* (redelivery after a crash or a rebalance) has exactly one row in the
\* history: no two rows of the history are the same record.
C36_OneRowPerRecord ==
  \A i, j \in 1..Len(history) : history[i] = history[j] => i = j

\* C37: when two single pushes for the same vehicle have both finished, each
\* having written the hot cache and published to the log, the record in the
\* hot cache is the record that is last in the log for that vehicle.
C37_CacheIsLogLast ==
  (/\ Len(log) = 2
   /\ \A r \in Slots : /\ DonePush(r) /\ slot[r].moved /\ slot[r].kafkaOk
                       /\ slot[r].failed = {} /\ slot[r].v = "a"
                       /\ "log" \in slot[r].effects) =>
    LET c == cache[StoreOf(1)]["a"]
        d == log[Len(log)]
    IN c.present /\ c.lat = d.lat /\ c.lng = d.lng /\ c.ts = d.ts

\* C38: every position accepted by a batch push is delivered as a location
\* message to the subscribers of its vehicle's room, once the fan-out worker
\* has caught up on the log path and at the answer on the direct-write path.
C38_BatchReachesRoom ==
  \A r \in Slots :
    (/\ DoneBatch(r) /\ slot[r].status = 200
     /\ fanOffset = Len(log)) =>
      \A i \in 1..Len(slot[r].valid) : \A s \in Sessions :
        LET v == slot[r].valid[i].vehicleId IN
        s \in Members(slot[r].w, VehicleRoom(v)) =>
          \E j \in 1..Len(inbox[s]) :
            /\ inbox[s][j].event = "location"
            /\ inbox[s][j].vehicleId = v

\* C39: the position of a vehicle whose descriptor is not public is not in
\* the answer of a nearby query, so that two runs that differ only in that
\* position give the same answers: every row of an answer is a public
\* vehicle's.
C39_NonPublicNotReturned ==
  \A r \in Slots :
    (slot[r].kind = "nearby" /\ slot[r].pc = "done" /\ slot[r].status = 200) =>
      \A i \in 1..Len(slot[r].data) : IsPublic(slot[r].data[i].vehicleId)

\* C40: a refresh token is redeemed at most once: no two refresh requests
\* that presented the same token have both been answered with a new pair.
C40_RedeemedOnce ==
  \A r1, r2 \in Slots :
    (/\ r1 # r2
     /\ slot[r1].kind = "refresh" /\ slot[r1].pc = "done" /\ slot[r1].status = 200
     /\ slot[r2].kind = "refresh" /\ slot[r2].pc = "done" /\ slot[r2].status = 200)
      => slot[r1].refreshToken # slot[r2].refreshToken

====
